---------------------------- MODULE Spec2Model ----------------------------
(***************************************************************************)
(* A model of the NetlistIO ingestion pipeline: the region scanner         *)
(* (ingestor/scanner.py), the compiler work queue (ingestor/compiler.py),  *)
(* the parallel parser (ingestor/parser.py), the SPICE line rules          *)
(* (ingestor/spice.py), the model registry (ingestor/registry.py) and the  *)
(* linker (ingestor/linker.py).                                            *)
(*                                                                         *)
(* Text is modelled as it is in the program: a string is a sequence of     *)
(* one-character strings, a file is the sequence of its bytes.             *)
(***************************************************************************)
EXTENDS Integers, Sequences, FiniteSets, TLC

(***************************************************************************)
(* Text helpers: str.lower, str.split, bytes.readline and the regular      *)
(* expressions of ingestor/spice.py, computed character by character.      *)
(***************************************************************************)

\* Python's None, for optional strings (no token is ever the empty string).
None == <<>>

\* The characters \s matches in a bytes pattern.
WS == {" ", "\t", "\n", "\r"}

UpperAlpha == <<"A", "B", "C", "D", "E", "F", "G", "H", "I", "J", "K", "L", "M",
                "N", "O", "P", "Q", "R", "S", "T", "U", "V", "W", "X", "Y", "Z">>

LowerAlpha == <<"a", "b", "c", "d", "e", "f", "g", "h", "i", "j", "k", "l", "m",
                "n", "o", "p", "q", "r", "s", "t", "u", "v", "w", "x", "y", "z">>

Digits == {"0", "1", "2", "3", "4", "5", "6", "7", "8", "9"}

LowerChar(c) ==
    IF \E i \in 1..Len(UpperAlpha) : UpperAlpha[i] = c
    THEN LowerAlpha[CHOOSE i \in 1..Len(UpperAlpha) : UpperAlpha[i] = c]
    ELSE c

UpperChar(c) ==
    IF \E i \in 1..Len(LowerAlpha) : LowerAlpha[i] = c
    THEN UpperAlpha[CHOOSE i \in 1..Len(LowerAlpha) : LowerAlpha[i] = c]
    ELSE c

\* str.lower()
Lower(s) == [i \in 1..Len(s) |-> LowerChar(s[i])]

\* s[i:j] with 1-based inclusive start i and exclusive end j.
Slice(s, i, j) == [k \in 1..(j - i) |-> s[i + k - 1]]

RECURSIVE SkipWs(_, _)
\* Index of the first character at or after i that is not whitespace.
SkipWs(s, i) == IF i <= Len(s) /\ s[i] \in WS THEN SkipWs(s, i + 1) ELSE i

RECURSIVE SkipNonWs(_, _)
\* Index of the first character at or after i that is whitespace (or Len+1).
SkipNonWs(s, i) == IF i <= Len(s) /\ s[i] \notin WS THEN SkipNonWs(s, i + 1) ELSE i

\* Case-insensitive match of the lower-case literal lit at index i of s.
MatchCI(s, i, lit) ==
    /\ i + Len(lit) - 1 <= Len(s)
    /\ \A k \in 1..Len(lit) : LowerChar(s[i + k - 1]) = lit[k]

RECURSIVE Flatten(_)
\* Concatenation of a sequence of strings.
Flatten(ss) == IF ss = <<>> THEN <<>> ELSE Head(ss) \o Flatten(Tail(ss))

RECURSIVE LineEnd(_, _)
\* mmap.readline(): the position after the next newline at or after
\* position i (1-based), or after the last byte when there is none.
LineEnd(s, i) ==
    IF i > Len(s) THEN i
    ELSE IF s[i] = "\n" THEN i + 1
    ELSE LineEnd(s, i + 1)

RECURSIVE SplitFrom(_, _)
\* str.split(): the maximal runs of non-whitespace characters of s from i on.
SplitFrom(s, i) ==
    LET b == SkipWs(s, i)
        e == SkipNonWs(s, b)
    IN IF b > Len(s) THEN <<>> ELSE <<Slice(s, b, e)>> \o SplitFrom(s, e)

Split(s) == SplitFrom(s, 1)

\* RE_SUBCKT.search on one line: ^\s*(\.subckt)\s+([^\s]+), ignoring case.
\* The match, as [matched, delimiter, name].
RE_SUBCKT(line) ==
    LET d  == SkipWs(line, 1)
        lit == <<".", "s", "u", "b", "c", "k", "t">>
        w  == d + Len(lit)
        n  == SkipWs(line, w)
        e  == SkipNonWs(line, n)
    IN IF MatchCI(line, d, lit) /\ n > w /\ e > n
       THEN [matched |-> TRUE, delimiter |-> Slice(line, d, w), name |-> Slice(line, n, e)]
       ELSE [matched |-> FALSE, delimiter |-> None, name |-> None]

\* RE_ENDS.match on one line: ^\s*\.ends, ignoring case.
RE_ENDS(line) == MatchCI(line, SkipWs(line, 1), <<".", "e", "n", "d", "s">>)

(***************************************************************************)
(* SpiceScanStrategy                                                       *)
(***************************************************************************)

\* The (delimiter, name) pair, or matched = FALSE for Python's None.
matches_macro_start(line) == RE_SUBCKT(line)

matches_macro_end(line) == RE_ENDS(line)

(***************************************************************************)
(* Scanner: the region finite state machine over one file.                 *)
(***************************************************************************)

\* Most physical lines in a scanned file.
MaxScanLines == 4

\* Most scan() calls on one Scanner object.
MaxScans == 2

\* Physical lines a scanned file is made of.
ScanLines ==
    { <<".", "s", "u", "b", "c", "k", "t", " ", "A", "\n">>,
      <<".", "S", "U", "B", "C", "K", "T", " ", "B", " ", "p", "\n">>,
      <<".", "e", "n", "d", "s", "\n">>,
      <<"R", "1", " ", "a", " ", "b", "\n">>,
      <<"\n">> }

\* What may follow the last newline of a file.
ScanTails == { <<>>, <<".", "e", "n", "d", "s">>, <<"X", "1", " ", "A">> }

ScanFiles ==
    { Flatten(ls) \o t :
        ls \in UNION { [1..n -> ScanLines] : n \in 0..MaxScanLines }, t \in ScanTails }

VARIABLES
    mm,          \* the bytes of the file the Scanner was built for
    context,     \* Scanner.context (ScanContext)
    scan         \* the position of scan(): pc, start_pos, calls, result

scanVars == <<mm, context, scan>>

\* A path: its directory, its file name, and whether it is written in a
\* spelling that Path.resolve() would change (as /s/../s/b is for /s/b).
Path(dir, name, alias) == [dir |-> dir, name |-> name, alias |-> alias]

\* Scanner.filepath
ScanPath == Path("r", "a", FALSE)

GLOBAL == "GLOBAL"

MACRO == "MACRO"

ParseRegion(filepath, start_byte, end_byte, region_type, context_delimiter, context_name) ==
    [filepath |-> filepath, start_byte |-> start_byte, end_byte |-> end_byte, region_type |-> region_type,
     context_delimiter |-> context_delimiter, context_name |-> context_name]

\* ScanContext(scan_strategy): the field defaults.
ScanContext ==
    [regions |-> <<>>, current_start |-> 0, depth |-> 0,
     context_name |-> None, context_delimiter |-> None, in_macro |-> FALSE]

\* _handle_global_line as it would be if a macro-end line met in global
\* scope closed a MACRO region.
HandleGlobalLine_ClosesOnEnd(ctx, line, cur) ==
    LET match == matches_macro_start(line)
    IN IF match.matched
       THEN [ctx EXCEPT
               !.regions = IF cur > ctx.current_start
                           THEN Append(@, ParseRegion(ScanPath, ctx.current_start, cur, GLOBAL, None, None))
                           ELSE @,
               !.context_delimiter = match.delimiter,
               !.context_name = match.name,
               !.current_start = cur,
               !.depth = 1,
               !.in_macro = TRUE]
       ELSE IF matches_macro_end(line)
       THEN [ctx EXCEPT
               !.regions = Append(@, ParseRegion(ScanPath, ctx.current_start, cur, MACRO,
                                                 ctx.context_delimiter, ctx.context_name)),
               !.current_start = cur]
       ELSE ctx

\* Scanner._handle_global_line(line, cur): the context after the line.
HandleGlobalLine(ctx, line, cur) ==
    LET match == matches_macro_start(line)
    IN IF match.matched
       THEN [ctx EXCEPT
               !.regions = IF cur > ctx.current_start
                           THEN Append(@, ParseRegion(ScanPath, ctx.current_start, cur, GLOBAL, None, None))
                           ELSE @,
               !.context_delimiter = match.delimiter,
               !.context_name = match.name,
               !.current_start = cur,
               !.depth = 1,
               !.in_macro = TRUE]
       ELSE ctx

\* _handle_macro_line closing the MACRO region at the start of the macro-end
\* line instead of its end.
HandleMacroLine_EndAtLineStart(ctx, line, cur, nxt) ==
    IF matches_macro_start(line).matched
    THEN [ctx EXCEPT !.depth = @ + 1]
    ELSE IF matches_macro_end(line)
    THEN IF ctx.depth - 1 = 0
         THEN [ctx EXCEPT
                 !.depth = @ - 1,
                 !.regions = Append(@, ParseRegion(ScanPath, ctx.current_start, cur, MACRO,
                                                   ctx.context_delimiter, ctx.context_name)),
                 !.current_start = nxt,
                 !.in_macro = FALSE]
         ELSE [ctx EXCEPT !.depth = @ - 1]
    ELSE ctx

\* Scanner._handle_macro_line(line, cur, nxt): the context after the line.
HandleMacroLine(ctx, line, cur, nxt) ==
    IF matches_macro_start(line).matched
    THEN [ctx EXCEPT !.depth = @ + 1]
    ELSE IF matches_macro_end(line)
    THEN IF ctx.depth - 1 = 0
         THEN [ctx EXCEPT
                 !.depth = @ - 1,
                 !.regions = Append(@, ParseRegion(ScanPath, ctx.current_start, nxt, MACRO,
                                                   ctx.context_delimiter, ctx.context_name)),
                 !.current_start = nxt,
                 !.in_macro = FALSE]
         ELSE [ctx EXCEPT !.depth = @ - 1]
    ELSE ctx

\* Scanner._finalize_region(start_pos): the context at end of file.
FinalizeRegion(ctx, start_pos) ==
    IF start_pos > ctx.current_start
    THEN [ctx EXCEPT !.regions = Append(@, ParseRegion(ScanPath, ctx.current_start, start_pos, GLOBAL, None, None))]
    ELSE ctx

\* One turn of the loop of _scan_regions on the line read at start_pos: the
\* context after _handle_macro_line or _handle_global_line.
ScanTurn(bytes, ctx, start_pos) ==
    LET end_pos == LineEnd(bytes, start_pos + 1) - 1
        line    == Slice(bytes, start_pos + 1, end_pos + 1)
    IN IF ctx.in_macro
       THEN HandleMacroLine(ctx, line, start_pos, end_pos)
       ELSE HandleGlobalLine(ctx, line, start_pos)

RECURSIVE ScanRegions(_, _, _)
\* _scan_regions from start_pos to the end of the file, then
\* _finalize_region: context.regions as scan() returns it.
ScanRegions(bytes, ctx, start_pos) ==
    IF start_pos >= Len(bytes) THEN FinalizeRegion(ctx, start_pos).regions
    ELSE ScanRegions(bytes, ScanTurn(bytes, ctx, start_pos), LineEnd(bytes, start_pos + 1) - 1)

\* Scanner(filepath, scan_strategy) over one of the files.
ScanInit ==
    /\ mm \in ScanFiles
    /\ context = ScanContext
    /\ scan = [pc |-> "ready", start_pos |-> 0, calls |-> 0, result |-> <<>>]

\* No Scanner: the scanner variables of a specification that has none.
ScanIdle ==
    [mm |-> <<>>,
     context |-> ScanContext,
     scan |-> [pc |-> "idle", start_pos |-> 0, calls |-> 0, result |-> <<>>]]

\* scan(): open_mmap, which refuses an empty file, then _scan_regions starts.
ScanBegin ==
    /\ scan.pc \in {"ready", "returned"}
    /\ scan.calls < MaxScans
    /\ scan' = [scan EXCEPT !.pc = IF Len(mm) = 0 THEN "raised" ELSE "scanning",
                            !.start_pos = 0,
                            !.calls = @ + 1]
    /\ UNCHANGED <<mm, context>>

\* One turn of the loop of _scan_regions: a line was read.
ScanLine ==
    /\ scan.pc = "scanning"
    /\ scan.start_pos < Len(mm)
    /\ context' = ScanTurn(mm, context, scan.start_pos)
    /\ scan' = [scan EXCEPT !.start_pos = LineEnd(mm, scan.start_pos + 1) - 1]
    /\ UNCHANGED mm

\* readline() returned nothing: _finalize_region, and scan() returns
\* context.regions.
ScanFinish ==
    /\ scan.pc = "scanning"
    /\ scan.start_pos >= Len(mm)
    /\ context' = FinalizeRegion(context, scan.start_pos)
    /\ scan' = [scan EXCEPT !.pc = "returned", !.result = context'.regions]
    /\ UNCHANGED mm

(***************************************************************************)
(* Compiler: the work queue over a file system, and IncludeResolver.       *)
(*                                                                         *)
(* A file of the file system is given by what a whole-file parse of it     *)
(* returns: its cells and its include directives.                          *)
(***************************************************************************)

\* Most directives in one file.
MaxIncludes == 2

\* Most regions compile() parses before the model stops following it.
MaxParsed == 8

\* The files: the root r/a, a file s/b in another directory, a file r/c
\* beside the root that holds cells and no directive, and two files of one
\* name, r/d beside the root and s/d beside s/b.
RootFile == [dir |-> "r", name |-> "a"]

OtherFile == [dir |-> "s", name |-> "b"]

SideFile == [dir |-> "r", name |-> "c"]

TwinFile == [dir |-> "r", name |-> "d"]

ShadowFile == [dir |-> "s", name |-> "d"]

Files == {RootFile, OtherFile, SideFile, TwinFile, ShadowFile}

\* A file name as written in a directive: absolute (with its directory) or a
\* bare relative name (dir = "").
Written(dir, name, alias) == [dir |-> dir, name |-> name, alias |-> alias]

\* IncludeDirective / LibraryDirective
Directive(is_lib, filepath, strict, section) ==
    [is_lib |-> is_lib, filepath |-> filepath, strict |-> strict, section |-> section]

\* The directives the files are written with.
Directives ==
    { Directive(FALSE, Written("s", "b", FALSE), TRUE, None),
      Directive(FALSE, Written("s", "b", TRUE), TRUE, None),
      Directive(FALSE, Written("", "a", FALSE), TRUE, None),
      Directive(FALSE, Written("", "b", FALSE), TRUE, None),
      Directive(FALSE, Written("", "c", FALSE), TRUE, None),
      Directive(FALSE, Written("", "d", FALSE), TRUE, None),
      Directive(FALSE, Written("", "z", FALSE), FALSE, None),
      Directive(TRUE, Written("s", "b", FALSE), TRUE, <<"t", "t">>) }

\* The contents a file may have: empty (zero bytes), or some cells and up to
\* MaxIncludes directives.
FileContents ==
    { [empty |-> TRUE, includes |-> {}] }
    \cup { [empty |-> FALSE, includes |-> ds] :
             ds \in { d \in SUBSET Directives : Cardinality(d) <= MaxIncludes } }

VARIABLES
    fs,                 \* the file system: file -> content
    visited_regions,    \* Compiler.visited_regions
    queue,              \* Compiler.queue
    aggregated_result,  \* Compiler.aggregated_result
    comp,               \* compile(): pc, warnings printed, regions parsed
    include_resolver    \* the outcome of IncludeResolver.resolve_includes(root)

compVars == <<fs, visited_regions, queue, aggregated_result, comp, include_resolver>>

\* Path.exists()
Exists(p) == [dir |-> p.dir, name |-> p.name] \in Files

\* Path.resolve()
Resolve(p) == Path(p.dir, p.name, FALSE)

\* The file a path names.
FileOf(p) == [dir |-> p.dir, name |-> p.name]

\* Path.parent: the directory, in the spelling of the path.
Parent(p) == [dir |-> p.dir, alias |-> p.alias]

\* Compiler.root: Path(root_filepath).resolve()
Root == Path(RootFile.dir, RootFile.name, FALSE)

\* _resolve_path as it would be if it tried the directory of the root before
\* the directory of the referring file.
ResolvePathFrom_RootFirst(root, filename, base) ==
    LET p     == Path(filename.dir, filename.name, filename.alias)
        cand2 == IF filename.dir # "" THEN p ELSE Path(base.dir, filename.name, base.alias)
        cand3 == IF filename.dir # "" THEN p ELSE Path(root.dir, filename.name, FALSE)
    IN IF filename.dir # "" /\ Exists(p) THEN [found |-> TRUE, path |-> p]
       ELSE IF Exists(cand3) THEN [found |-> TRUE, path |-> Resolve(cand3)]
       ELSE IF Exists(cand2) THEN [found |-> TRUE, path |-> Resolve(cand2)]
       ELSE [found |-> FALSE, path |-> p]

\* Compiler._resolve_path(filename, base_dir) of a Compiler whose root is
\* root, base_dir the parent of the referring path: [found, path].
ResolvePathFrom(root, filename, base) ==
    LET p     == Path(filename.dir, filename.name, filename.alias)
        cand2 == IF filename.dir # "" THEN p ELSE Path(base.dir, filename.name, base.alias)
        cand3 == IF filename.dir # "" THEN p ELSE Path(root.dir, filename.name, FALSE)
    IN IF filename.dir # "" /\ Exists(p) THEN [found |-> TRUE, path |-> p]
       ELSE IF Exists(cand2) THEN [found |-> TRUE, path |-> Resolve(cand2)]
       ELSE IF Exists(cand3) THEN [found |-> TRUE, path |-> Resolve(cand3)]
       ELSE [found |-> FALSE, path |-> p]

\* _resolve_path of the Compiler on the root file.
ResolvePath(filename, base) == ResolvePathFrom(Root, filename, base)

\* Compiler._create_file_region(path)
CreateFileRegion(path) == ParseRegion(path, 0, -1, GLOBAL, None, None)

\* The key of _enqueue: f"{region.filepath}:{region.start_byte}-{region.end_byte}"
RegionKey(region) == <<region.filepath, region.start_byte, region.end_byte>>

\* _enqueue without the visited check.
Enqueue_NoVisitedCheck(st, region) ==
    [st EXCEPT !.visited = @ \cup {RegionKey(region)},
               !.queue = Append(@, region)]

\* _enqueue as it would be if it queued an unseen region without adding its
\* key to visited_regions.
Enqueue_NoVisitedAdd(st, region) ==
    IF RegionKey(region) \notin st.visited
    THEN [st EXCEPT !.queue = Append(@, region)]
    ELSE st

\* Compiler._enqueue(region), on the state [root, visited, queue, warnings,
\* raised, cells, parsed] of a Compiler.
Enqueue(st, region) ==
    IF RegionKey(region) \notin st.visited
    THEN [st EXCEPT !.visited = @ \cup {RegionKey(region)},
                    !.queue = Append(@, region)]
    ELSE st

\* _handle_directive as it would be if it printed the warning for a lenient
\* directive too.
HandleDirective_WarnsLenient(st, directive, context_filepath) ==
    LET r == ResolvePathFrom(st.root, directive.filepath, Parent(context_filepath))
    IN IF ~r.found
       THEN [st EXCEPT !.warnings = Append(@, directive.filepath)]
       ELSE IF directive.is_lib /\ directive.section # None
       THEN [st EXCEPT !.raised = "AttributeError"]
       ELSE Enqueue(st, CreateFileRegion(r.path))

\* Compiler._handle_directive(directive, context_filepath).  LibraryProcessor
\* has no attribute find_section (it defines _find_section), so the call for
\* a named section raises AttributeError, which the except ValueError around
\* it lets through.
HandleDirective(st, directive, context_filepath) ==
    LET r == ResolvePathFrom(st.root, directive.filepath, Parent(context_filepath))
    IN IF ~r.found
       THEN IF directive.strict
            THEN [st EXCEPT !.warnings = Append(@, directive.filepath)]
            ELSE st
       ELSE IF directive.is_lib /\ directive.section # None
       THEN [st EXCEPT !.raised = "AttributeError"]
       ELSE Enqueue(st, CreateFileRegion(r.path))

RECURSIVE HandleDirectives(_, _, _)
\* for directive in result.includes: the loop stops at the first exception.
HandleDirectives(st, includes, context_filepath) ==
    IF includes = <<>> \/ st.raised # ""
    THEN st
    ELSE HandleDirectives(HandleDirective(st, Head(includes), context_filepath),
                          Tail(includes), context_filepath)

\* The orders in which list(all_includes) may list a set of directives.
Orders(ds) ==
    { o \in [1..Cardinality(ds) -> ds] : \A i, j \in DOMAIN o : i # j => o[i] # o[j] }

\* Compiler(root, ...): the state of a new Compiler.
Compiler(root) ==
    [root |-> root, visited |-> {}, queue |-> <<>>, warnings |-> <<>>, raised |-> "",
     cells |-> <<>>, parsed |-> <<>>]

\* compile(), one turn of the while loop on a Compiler in state st: popleft,
\* _parse_region, aggregate, handle every directive of the result, which
\* lists them in the order includes.  A whole-file region is scanned first,
\* and open_mmap raises ValueError on an empty file.  A byte-slice region
\* comes only from the find_section branch of _handle_directive, so none is
\* ever in the queue.
CompileTurn(st, content, includes) ==
    IF content.empty
    THEN [st EXCEPT !.queue = Tail(@), !.raised = "ValueError",
                    !.parsed = Append(@, RegionKey(Head(st.queue)))]
    ELSE HandleDirectives([st EXCEPT !.queue = Tail(@),
                                     !.cells = Append(@, Head(st.queue).filepath),
                                     !.parsed = Append(@, RegionKey(Head(st.queue)))],
                          includes, Head(st.queue).filepath)

CompInit ==
    /\ fs \in { [f \in Files |-> IF f \in {SideFile, TwinFile, ShadowFile}
                                  THEN [empty |-> FALSE, includes |-> {}]
                                  ELSE g[f]] :
                  g \in [{RootFile, OtherFile} -> FileContents] }
    /\ visited_regions = {}
    /\ queue = <<>>
    /\ aggregated_result = [cells |-> <<>>, errors |-> <<>>]
    /\ comp = [pc |-> "new", warnings |-> <<>>, parsed |-> <<>>, raised |-> ""]
    /\ include_resolver = "new"

CompIdle ==
    [fs |-> [f \in Files |-> [empty |-> TRUE, includes |-> {}]],
     visited_regions |-> {},
     queue |-> <<>>,
     aggregated_result |-> [cells |-> <<>>, errors |-> <<>>],
     comp |-> [pc |-> "idle", warnings |-> <<>>, parsed |-> <<>>, raised |-> ""],
     include_resolver |-> "idle"]

\* The Compiler on the root file, as the variables hold it.
CompilerState ==
    [root |-> Root, visited |-> visited_regions, queue |-> queue,
     warnings |-> comp.warnings, raised |-> "", cells |-> aggregated_result.cells,
     parsed |-> comp.parsed]

\* The variables after a step of compile() left the Compiler in state st.
CompilerStepped(st, pc) ==
    /\ visited_regions' = st.visited
    /\ queue' = st.queue
    /\ aggregated_result' = [aggregated_result EXCEPT !.cells = st.cells]
    /\ comp' = [comp EXCEPT !.pc = IF st.raised # "" THEN "raised" ELSE pc,
                            !.raised = st.raised,
                            !.warnings = st.warnings,
                            !.parsed = st.parsed]

\* compile(), step 1: seed the queue with the root file.
CompileSeed ==
    /\ comp.pc = "new"
    /\ CompilerStepped(Enqueue(CompilerState, CreateFileRegion(Root)), "loop")
    /\ UNCHANGED <<fs, include_resolver>>

\* compile(), one turn of the while loop.
CompileStep ==
    /\ comp.pc = "loop"
    /\ queue # <<>>
    /\ Len(comp.parsed) < MaxParsed
    /\ \E includes \in Orders(fs[FileOf(Head(queue).filepath)].includes) :
          CompilerStepped(CompileTurn(CompilerState, fs[FileOf(Head(queue).filepath)],
                                      includes),
                          "loop")
    /\ UNCHANGED <<fs, include_resolver>>

\* compile(): the queue is empty, return self.aggregated_result.
CompileReturn ==
    /\ comp.pc = "loop"
    /\ queue = <<>>
    /\ comp' = [comp EXCEPT !.pc = "done"]
    /\ UNCHANGED <<fs, visited_regions, queue, aggregated_result, include_resolver>>

\* IncludeResolver.resolve_includes(root): _scan_file_for_includes maps the
\* root (ValueError when it is empty) and calls scan_strategy.matches_include
\* on its first line; ScanStrategy and SpiceScanStrategy define no such
\* method, so the call raises AttributeError before any directive is read.
ResolveIncludes ==
    /\ include_resolver = "new"
    /\ include_resolver' = IF fs[RootFile].empty THEN "ValueError: cannot mmap an empty file"
                           ELSE "AttributeError: matches_include"
    /\ UNCHANGED <<fs, visited_regions, queue, aggregated_result, comp>>

Compile == CompileSeed \/ CompileStep \/ CompileReturn

RECURSIVE CompileLoop(_)
\* The while loop of compile() on a Compiler in state st, to its end: the
\* states it may end in, one for each order the directives of each result
\* may be listed in.
CompileLoop(st) ==
    IF st.raised # "" \/ st.queue = <<>> THEN {st}
    ELSE UNION { CompileLoop(CompileTurn(st, fs[FileOf(Head(st.queue).filepath)], includes)) :
                 includes \in Orders(fs[FileOf(Head(st.queue).filepath)].includes) }

\* Compiler(root, ...).compile(): the states it may end in.
CompileOf(root) == CompileLoop(Enqueue(Compiler(root), CreateFileRegion(root)))

(***************************************************************************)
(* SPICE line rules (ingestor/spice.py) and the device classes             *)
(* (models/spice.py).                                                      *)
(***************************************************************************)

\* str.strip()
RECURSIVE RStripEnd(_, _)
RStripEnd(s, j) == IF j >= 1 /\ s[j] \in WS THEN RStripEnd(s, j - 1) ELSE j

Strip(s) ==
    LET b == SkipWs(s, 1)
        e == RStripEnd(s, Len(s))
    IN IF b > e THEN <<>> ELSE Slice(s, b, e + 1)

RECURSIVE Join(_)
\* " ".join(parts)
Join(parts) ==
    IF parts = <<>> THEN <<>>
    ELSE IF Len(parts) = 1 THEN parts[1]
    ELSE parts[1] \o <<" ">> \o Join(Tail(parts))

\* "c" in token
Contains(token, c) == \E i \in 1..Len(token) : token[i] = c

\* token.split("=", 1) of a token that contains "=": <<key, value>>.
SplitEq(token) ==
    LET i == CHOOSE k \in 1..Len(token) :
                 token[k] = "=" /\ \A m \in 1..(k - 1) : token[m] # "="
    IN <<Slice(token, 1, i), Slice(token, i + 1, Len(token) + 1)>>

RECURSIVE EqualsNormFrom(_, _)
\* _RE_EQUALS_NORM.sub("=", s): every \s*=\s* becomes "=".
EqualsNormFrom(s, i) ==
    IF i > Len(s) THEN <<>>
    ELSE LET j == SkipWs(s, i)
         IN IF j <= Len(s) /\ s[j] = "="
            THEN <<"=">> \o EqualsNormFrom(s, SkipWs(s, j + 1))
            ELSE <<s[i]>> \o EqualsNormFrom(s, i + 1)

EqualsNorm(s) == EqualsNormFrom(s, 1)

\* An insertion-ordered dict as a sequence of <<key, value>>: d[k] = v.
DictSet(d, k, v) ==
    IF \E i \in 1..Len(d) : d[i][1] = k
    THEN [i \in 1..Len(d) |-> IF d[i][1] = k THEN <<k, v>> ELSE d[i]]
    ELSE Append(d, <<k, v>>)

RECURSIVE FromKeys(_)
\* list(dict.fromkeys(xs)): xs without repeats, first occurrences kept.
FromKeys(xs) ==
    IF xs = <<>> THEN <<>>
    ELSE LET init == FromKeys(SubSeq(xs, 1, Len(xs) - 1))
             x    == xs[Len(xs)]
         IN IF \E i \in 1..Len(init) : init[i] = x THEN init ELSE Append(init, x)

\* The classes of _SpicePrimitiveMixin.prefix_registry by inst_prefix.  MOSFET,
\* NMOS and PMOS all register under "M"; PMOS is defined last and stays.
prefix_registry ==
    [R |-> "resistor", C |-> "capacitor", L |-> "inductor",
     M |-> "pmos", D |-> "diode", X |-> "subckt"]

\* _SpicePassiveMixin.registry
passive_registry == {"resistor", "capacitor", "inductor"}

\* Primitive.ports of each primitive class, by its name.
PrimitivePorts(name) ==
    IF name \in {"resistor", "capacitor", "inductor"} THEN << <<"a">>, <<"b">> >>
    ELSE IF name \in {"mosfet", "nmos", "pmos"} THEN << <<"d">>, <<"g">>, <<"s">>, <<"b">> >>
    ELSE << <<"a">>, <<"k">> >>

\* A definition reference held by an Instance: nothing, a primitive (by its
\* class name) or a Macro object (by its name and its identity).
NoDef == [kind |-> "None", name |-> <<>>, id |-> 0]

PrimitiveDef(cls) == [kind |-> "Primitive", name |-> cls, id |-> 0]

MacroDef(name, id) == [kind |-> "Macro", name |-> name, id |-> id]

\* Instance(name, nets, params, definition, definition_name, parent); nets
\* is the dict as a sequence of [net, port].
Instance(name, nets, params, definition, definition_name) ==
    [type |-> "Instance", name |-> name,
     nets |-> [i \in 1..Len(nets) |-> [net |-> nets[i], port |-> None]],
     params |-> params, definition |-> definition,
     definition_name |-> definition_name, parent |-> None]

\* Subckt(name, ports, children); origin is the start byte of the region the
\* declaration was read in (it tells the objects of equal name apart).
Subckt(name, ports, origin) ==
    [type |-> "Macro", name |-> name, ports |-> ports, children |-> <<>>, origin |-> origin]

\* Model(name, base_type, params)
Model(name, base_type, params) ==
    [type |-> "Model", name |-> name, base_type |-> base_type, params |-> params]

\* get_definition_from_prefix(c): the class, or "" for ValueError.
get_definition_from_prefix(c) ==
    LET u == UpperChar(c)
    IN IF u \in DOMAIN prefix_registry THEN prefix_registry[u] ELSE ""

\* SpiceLineParser._is_value(token)
IsValue(token) ==
    /\ token # <<>>
    /\ token[1] \in Digits \cup {".", "-", "+"}

RECURSIVE ExtractParams(_, _, _)
\* SpiceLineParser._extract_params(tokens, params) from index i down:
\* [tokens, params] after it.
ExtractParams(tokens, params, i) ==
    IF i < 1 THEN [tokens |-> tokens, params |-> params]
    ELSE IF Contains(tokens[i], "=")
    THEN LET kv == SplitEq(tokens[i])
         IN ExtractParams(SubSeq(tokens, 1, i - 1) \o SubSeq(tokens, i + 1, Len(tokens)),
                          DictSet(params, kv[1], kv[2]), i - 1)
    ELSE ExtractParams(tokens, params, i - 1)

\* SpiceLineParser.parse_instance(line) up to "nets.reverse()": [ok, name,
\* cls, nets, params, definition_name], ok = FALSE where it returns None;
\* nets are the net tokens in the order written, repeats included.
InstanceTokens(line0) ==
    LET line   == EqualsNorm(line0)
        tokens == Split(line)
        none   == [ok |-> FALSE, name |-> <<>>, cls |-> "", nets |-> <<>>, params |-> <<>>,
                   definition_name |-> None]
    IN IF Len(tokens) < 2 THEN none
       ELSE LET name_token     == tokens[1]
                rest           == Tail(tokens)
                definition_cls == get_definition_from_prefix(name_token[1])
                passive        == definition_cls \in passive_registry
                has_value      == passive /\ rest # <<>> /\ IsValue(rest[Len(rest)])
                params0        == IF has_value
                                  THEN << <<<<"v", "a", "l", "u", "e">>, rest[Len(rest)]>> >>
                                  ELSE <<>>
                rest1          == IF has_value THEN SubSeq(rest, 1, Len(rest) - 1) ELSE rest
                ex             == ExtractParams(rest1, params0, Len(rest1))
                positional     == ex.tokens
                \* the last positional token names the model unless the
                \* class already did; the tokens before it are the nets
                definition_name ==
                    IF passive THEN definition_cls
                    ELSE IF positional # <<>> THEN positional[Len(positional)]
                    ELSE None
                nets ==
                    IF passive \/ positional = <<>> THEN positional
                    ELSE SubSeq(positional, 1, Len(positional) - 1)
            IN IF definition_cls = "" THEN none
               ELSE [ok |-> TRUE, name |-> name_token, cls |-> definition_cls, nets |-> nets,
                     params |-> ex.params, definition_name |-> definition_name]

\* SpiceLineParser.parse_instance(line) from "nets_dict = dict.fromkeys(nets)"
\* on: the Instance for the tokens t.
InstanceOf(t) ==
    IF ~t.ok THEN [ok |-> FALSE, instance |-> Instance(<<>>, <<>>, <<>>, NoDef, None)]
    ELSE IF t.cls = "subckt"
    THEN [ok |-> TRUE,
          instance |-> Instance(t.name, FromKeys(t.nets), t.params, NoDef, t.definition_name)]
    ELSE [ok |-> TRUE,
          instance |-> Instance(t.name, FromKeys(t.nets), t.params, PrimitiveDef(t.cls), None)]

\* SpiceLineParser.parse_instance(line): [ok, instance], ok = FALSE for None.
parse_instance(line0) == InstanceOf(InstanceTokens(line0))

RECURSIVE ModelParams(_, _)
\* The params loop of parse_declaration over the tokens of the params text.
ModelParams(tokens, params) ==
    IF tokens = <<>> THEN params
    ELSE IF Contains(Head(tokens), "=")
    THEN LET kv == SplitEq(Head(tokens))
         IN ModelParams(Tail(tokens), DictSet(params, kv[1], kv[2]))
    ELSE ModelParams(Tail(tokens), DictSet(params, Head(tokens), <<"t", "r", "u", "e">>))

\* RE_MODEL.search on a logical line:
\* ^\s*(\.model)\s+(\S+)\s+(\S+)\s*(.*)$ as [matched, name, type, params].
RE_MODEL(line) ==
    LET d   == SkipWs(line, 1)
        lit == <<".", "m", "o", "d", "e", "l">>
        w   == d + Len(lit)
        n   == SkipWs(line, w)
        ne  == SkipNonWs(line, n)
        t   == SkipWs(line, ne)
        te  == SkipNonWs(line, t)
        ps  == SkipWs(line, te)
    IN IF MatchCI(line, d, lit) /\ n > w /\ ne > n /\ t > ne /\ te > t
       THEN [matched |-> TRUE, name |-> Slice(line, n, ne), type |-> Slice(line, t, te),
             params |-> Slice(line, ps, Len(line) + 1)]
       ELSE [matched |-> FALSE, name |-> None, type |-> None, params |-> None]

\* SpiceLineParser.parse_declaration(line) read in the region that starts at
\* byte origin: [ok, cell], ok = FALSE for None.
parse_declaration(line, origin) ==
    LET tokens == Split(line)
        m      == RE_MODEL(line)
    IN IF RE_SUBCKT(line).matched /\ Len(tokens) >= 2
       THEN LET ports == SubSeq(tokens, 3, Len(tokens))
                idx   == { i \in 1..Len(ports) : ~Contains(ports[i], "=") }
                \* the ports that hold no "=", in their order
                kept  == [k \in 1..Cardinality(idx) |->
                             ports[CHOOSE i \in idx : Cardinality({j \in idx : j < i}) = k - 1]]
            IN [ok |-> TRUE, cell |-> Subckt(tokens[2], kept, origin)]
       ELSE IF m.matched
       THEN [ok |-> TRUE,
             cell |-> Model(m.name, m.type, ModelParams(Split(EqualsNorm(m.params)), <<>>))]
       ELSE [ok |-> FALSE, cell |-> Model(None, None, <<>>)]

Quotes == {"\"", "'"}

RECURSIVE SkipNonQuote(_, _)
SkipNonQuote(s, i) == IF i <= Len(s) /\ s[i] \notin Quotes THEN SkipNonQuote(s, i + 1) ELSE i

RECURSIVE SkipNonBracket(_, _)
\* The end of a run of [^"\]] from i.
SkipNonBracket(s, i) ==
    IF i <= Len(s) /\ s[i] \notin {"\"", "]"} THEN SkipNonBracket(s, i + 1) ELSE i

\* (?:["'](?P<q_filename>[^"']+)["']|(?P<u_filename>[^\s]+)) at index n:
\* [matched, quoted, filename, after], after the index behind the match.
FilenameAt(line, n, quoted) ==
    IF quoted
    THEN LET e == SkipNonQuote(line, n + 1)
         IN IF n <= Len(line) /\ line[n] \in Quotes /\ e > n + 1 /\ e <= Len(line)
            THEN [matched |-> TRUE, filename |-> Slice(line, n + 1, e), after |-> e + 1]
            ELSE [matched |-> FALSE, filename |-> None, after |-> n]
    ELSE LET e == SkipNonWs(line, n)
         IN IF e > n
            THEN [matched |-> TRUE, filename |-> Slice(line, n, e), after |-> e]
            ELSE [matched |-> FALSE, filename |-> None, after |-> n]

\* (?:\s+(?P<section>[^\s]+))?\s*$ at index i: [matched, section].
SectionTail(line, i) ==
    LET b == SkipWs(line, i)
        e == SkipNonWs(line, b)
    IN IF b > Len(line) THEN [matched |-> TRUE, section |-> None]
       ELSE IF b > i /\ SkipWs(line, e) > Len(line)
       THEN [matched |-> TRUE, section |-> Slice(line, b, e)]
       ELSE [matched |-> FALSE, section |-> None]

\* IncludeDirective(filepath, source_file, strict) / LibraryDirective(...,
\* section), with the file name as written.
IncludeDirective(filepath, strict) ==
    [is_lib |-> FALSE, filepath |-> filepath, strict |-> strict, section |-> None]

LibraryDirective(filepath, section) ==
    [is_lib |-> TRUE, filepath |-> filepath, strict |-> TRUE, section |-> section]

RECURSIVE StripQuotes(_)
\* str.strip("\"'")
StripQuotes(s) ==
    IF s # <<>> /\ s[1] \in Quotes THEN StripQuotes(Tail(s))
    ELSE IF s # <<>> /\ s[Len(s)] \in Quotes THEN StripQuotes(SubSeq(s, 1, Len(s) - 1))
    ELSE s

\* RE_CADENCE_STRICT_INCLUDE / RE_CADENCE_LENIENT_INCLUDE with mark "!" or "?":
\* ^\s*\[<mark>\s*([^"\]]+)\s*\] as [matched, filename].
RE_CADENCE(line, mark) ==
    LET d == SkipWs(line, 1)
        m == d + 2
        b == SkipWs(line, m)
        \* \s* gives one character back when nothing else is left for the group
        g == IF b <= Len(line) /\ line[b] = "]" /\ b > m THEN b - 1 ELSE b
        e == SkipNonBracket(line, g)
    IN IF /\ d + 1 <= Len(line) /\ line[d] = "[" /\ line[d + 1] = mark
          /\ e > g /\ e <= Len(line) /\ line[e] = "]"
       THEN [matched |-> TRUE, filename |-> StripQuotes(Slice(line, g, e))]
       ELSE [matched |-> FALSE, filename |-> None]

\* SpiceLineParser.parse_include(line): [ok, directive], ok = FALSE for None.
parse_include(line) ==
    LET d    == SkipWs(line, 1)
        inc  == <<".", "i", "n", "c", "l", "u", "d", "e">>
        lib  == <<".", "l", "i", "b">>
        ni   == SkipWs(line, d + Len(inc))
        iq   == FilenameAt(line, ni, TRUE)
        iu   == FilenameAt(line, ni, FALSE)
        nl   == SkipWs(line, d + Len(lib))
        lq   == FilenameAt(line, nl, TRUE)
        lu   == FilenameAt(line, nl, FALSE)
        lqs  == SectionTail(line, lq.after)
        lus  == SectionTail(line, lu.after)
        cs   == RE_CADENCE(line, "!")
        cl   == RE_CADENCE(line, "?")
    IN IF MatchCI(line, d, inc) /\ ni > d + Len(inc) /\ (iq.matched \/ iu.matched)
       THEN [ok |-> TRUE,
             directive |-> IncludeDirective(IF iq.matched THEN iq.filename ELSE iu.filename, TRUE)]
       ELSE IF MatchCI(line, d, lib) /\ nl > d + Len(lib) /\ lq.matched /\ lqs.matched
       THEN [ok |-> TRUE, directive |-> LibraryDirective(lq.filename, lqs.section)]
       ELSE IF MatchCI(line, d, lib) /\ nl > d + Len(lib) /\ lu.matched /\ lus.matched
       THEN [ok |-> TRUE, directive |-> LibraryDirective(lu.filename, lus.section)]
       ELSE IF cs.matched THEN [ok |-> TRUE, directive |-> IncludeDirective(cs.filename, TRUE)]
       ELSE IF cl.matched THEN [ok |-> TRUE, directive |-> IncludeDirective(cl.filename, FALSE)]
       ELSE [ok |-> FALSE, directive |-> IncludeDirective(None, TRUE)]

(***************************************************************************)
(* SpiceChunkParser: the logical lines of a region, and ChunkParser.parse. *)
(***************************************************************************)

SPICE_COMMENT_CHARS == {"*", "$"}

\* SpiceChunkParser._is_comment(line)
IsComment(line) == line = <<>> \/ line[1] \in SPICE_COMMENT_CHARS

\* SpiceChunkParser._is_continuation(line)
IsContinuation(line) == line # <<>> /\ line[1] = "+"

\* SpiceChunkParser._accumulate_logical_line(accumulated); <<>> for None.
AccumulateLogicalLine(accumulated) ==
    IF accumulated = <<>> THEN <<>>
    ELSE IF IsComment(Join(accumulated)) THEN <<>>
    ELSE Join(accumulated)

RECURSIVE PhysicalLines(_, _, _)
\* The lines _read_physical_line returns from position pos (0-based) on:
\* none once pos >= end_byte (end_byte /= -1) or at the end of the file;
\* each decoded and stripped.
PhysicalLines(bytes, pos, end_byte) ==
    IF (pos >= end_byte /\ end_byte # -1) \/ pos >= Len(bytes) THEN <<>>
    ELSE LET nxt == LineEnd(bytes, pos + 1) - 1
         IN <<Strip(Slice(bytes, pos + 1, nxt + 1))>> \o PhysicalLines(bytes, nxt, end_byte)

RECURSIVE FoldLines_CommentEndsLine(_, _)
\* The while loop of __iter__ as it would be if a comment line ended the
\* logical line being accumulated.
FoldLines_CommentEndsLine(lines, accumulated) ==
    IF lines = <<>> THEN <<AccumulateLogicalLine(accumulated)>>
    ELSE IF IsComment(Head(lines))
    THEN <<AccumulateLogicalLine(accumulated)>> \o FoldLines_CommentEndsLine(Tail(lines), <<>>)
    ELSE IF IsContinuation(Head(lines))
    THEN FoldLines_CommentEndsLine(Tail(lines), Append(accumulated, Strip(Tail(Head(lines)))))
    ELSE <<AccumulateLogicalLine(accumulated)>>
         \o FoldLines_CommentEndsLine(Tail(lines), <<Head(lines)>>)

RECURSIVE FoldLines(_, _)
\* The while loop of __iter__: the values it yields, from the physical
\* lines left and the lines accumulated so far.
FoldLines(lines, accumulated) ==
    IF lines = <<>> THEN <<AccumulateLogicalLine(accumulated)>>
    ELSE IF IsComment(Head(lines)) THEN FoldLines(Tail(lines), accumulated)
    ELSE IF IsContinuation(Head(lines))
    THEN FoldLines(Tail(lines), Append(accumulated, Strip(Tail(Head(lines)))))
    ELSE <<AccumulateLogicalLine(accumulated)>> \o FoldLines(Tail(lines), <<Head(lines)>>)

\* SpiceChunkParser.__iter__ on a region of the file: the values yielded.
\* In a region that starts at byte 0 the first physical line is the title
\* unless it is a comment or starts with "."; when it is missing or blank
\* the iteration ends at once.
LogicalLines(bytes, region) ==
    LET lines == PhysicalLines(bytes, region.start_byte, region.end_byte)
    IN IF region.start_byte = 0
       THEN IF lines = <<>> \/ Head(lines) = <<>> THEN <<>>
            ELSE IF ~(IsComment(Head(lines)) \/ Head(lines)[1] = ".")
            THEN FoldLines(Tail(lines), <<>>)
            ELSE IF ~IsComment(Head(lines))
            THEN FoldLines(Tail(lines), <<Head(lines)>>)
            ELSE FoldLines(Tail(lines), <<>>)
       ELSE FoldLines(lines, <<>>)

\* One turn of the for loop of ChunkParser.parse on the state [cells,
\* includes, has_macro, macro]: decl, incl and inst are what
\* parse_declaration, parse_include and parse_instance make of the line.
ChunkTurn(st, line, decl, incl, inst) ==
    IF line = <<>> THEN st
    ELSE IF decl.ok
    THEN IF decl.cell.type = "Macro"
         THEN [st EXCEPT !.has_macro = TRUE, !.macro = decl.cell]
         ELSE IF st.has_macro
         THEN [st EXCEPT !.macro.children = Append(@, decl.cell)]
         ELSE [st EXCEPT !.cells = Append(@, decl.cell)]
    ELSE IF incl.ok
    THEN [st EXCEPT !.includes = Append(@, incl.directive)]
    ELSE IF inst.ok
    THEN IF st.has_macro
         THEN [st EXCEPT !.macro.children = Append(@, inst.instance)]
         ELSE [st EXCEPT !.cells = Append(@, inst.instance)]
    ELSE st

RECURSIVE ChunkLoop(_, _, _)
\* The for loop of ChunkParser.parse over the yielded lines.
ChunkLoop(lines, st, origin) ==
    IF lines = <<>> THEN st
    ELSE ChunkLoop(Tail(lines),
                   ChunkTurn(st, Head(lines), parse_declaration(Head(lines), origin),
                             parse_include(Head(lines)), parse_instance(Head(lines))),
                   origin)

\* The end of ChunkParser.parse(): the ParseResult for the loop's state.
\* line_parser.errors is never appended to.
ChunkResult(st) ==
    [cells |-> IF st.has_macro THEN <<st.macro>> ELSE st.cells,
     errors |-> <<>>,
     includes |-> st.includes]

\* ChunkParser.parse() of a region: ParseResult(cells, errors, includes).
ChunkParse(bytes, region) ==
    ChunkResult(ChunkLoop(LogicalLines(bytes, region),
                          [cells |-> <<>>, includes |-> <<>>, has_macro |-> FALSE,
                           macro |-> Subckt(None, <<>>, 0)],
                          region.start_byte))

(***************************************************************************)
(* Parser.parse (ingestor/parser.py): one worker per region of one file.   *)
(***************************************************************************)

\* Most blocks of lines a parsed file is made of.
MaxBlocks == 3

\* The blocks of lines a parsed file is made of.
Blocks ==
    { \* macro A, which instantiates B (written b)
      <<".", "s", "u", "b", "c", "k", "t", " ", "A", " ", "p", " ", "q", "\n", "X", "1", " ", "n", " ", "b", "\n", ".", "e", "n", "d", "s", "\n">>,
      \* macro B, which instantiates A
      <<".", "s", "u", "b", "c", "k", "t", " ", "B", " ", "p", "\n", "X", "1", " ", "n", " ", "A", "\n", ".", "e", "n", "d", "s", "\n">>,
      \* macro B, empty
      <<".", "s", "u", "b", "c", "k", "t", " ", "B", " ", "p", "\n", ".", "e", "n", "d", "s", "\n">>,
      \* macro A, whose instance names no model
      <<".", "s", "u", "b", "c", "k", "t", " ", "A", " ", "p", " ", "q", "\n", "X", "1", " ", "w", "=", "1", "\n", ".", "e", "n", "d", "s", "\n">>,
      \* macro C with a nested .model
      <<".", "s", "u", "b", "c", "k", "t", " ", "C", " ", "p", "\n", ".", "m", "o", "d", "e", "l", " ", "N", " ", "n", "m", "o", "s", "\n", ".", "e", "n", "d", "s", "\n">>,
      \* macro C, which instantiates itself
      <<".", "s", "u", "b", "c", "k", "t", " ", "C", " ", "p", "\n", "X", "1", " ", "n", " ", "C", "\n", ".", "e", "n", "d", "s", "\n">>,
      \* a top-level instance of A
      <<"X", "2", " ", "n", " ", "m", " ", "A", "\n">>,
      \* a top-level instance of A that writes one net twice
      <<"X", "4", " ", "n", " ", "n", " ", "A", "\n">>,
      \* a top-level instance of U, which nothing defines
      <<"X", "3", " ", "n", " ", "U", "\n">>,
      \* a top-level resistor
      <<"R", "1", " ", "a", " ", "b", " ", "1", "k", "\n">>,
      \* a top-level resistor with its value and a parameter on a continuation line
      <<"R", "1", " ", "a", " ", "b", "\n", "+", " ", "1", "0", "k", " ", "t", "c", "=", "0", ".", "0", "0", "1", "\n">>,
      \* a comment line
      <<"*", " ", "c", "\n">> }

\* The files parsed: the empty file, and the files of 1..MaxBlocks blocks.
NetlistFiles ==
    { Flatten(bs) : bs \in UNION { [1..n -> Blocks] : n \in 0..MaxBlocks } }

\* Most physical lines of a file written line by line.
MaxFoldLines == 4

\* The physical lines of the files written line by line: a statement, a
\* comment, a continuation, and another statement.
FoldingLines ==
    { <<"R", "1", " ", "a", " ", "b", "\n">>,
      <<"*", " ", "c", "\n">>,
      <<"+", " ", "w", "=", "1", "\n">>,
      <<"X", "1", " ", "n", " ", "A", "\n">> }

LineFiles ==
    { Flatten(ls) : ls \in UNION { [1..n -> FoldingLines] : n \in 1..MaxFoldLines } }

\* Files with a subcircuit written inside another: an empty one in an empty
\* one, one between the children of another, and one followed by a top-level
\* instance of the outer.
NestedFiles ==
    { <<".", "s", "u", "b", "c", "k", "t", " ", "O", " ", "a", "\n", ".", "s", "u", "b", "c", 
        "k", "t", " ", "I", " ", "c", "\n", ".", "e", "n", "d", "s", "\n", ".", "e", 
        "n", "d", "s", "\n">>,
      <<".", "s", "u", "b", "c", "k", "t", " ", "O", " ", "a", "\n", "R", "1", " ", "a", " ", 
        "b", "\n", ".", "s", "u", "b", "c", "k", "t", " ", "I", " ", "c", "\n", "R", 
        "2", " ", "c", " ", "d", "\n", ".", "e", "n", "d", "s", "\n", "X", "1", " ", 
        "a", " ", "I", "\n", ".", "e", "n", "d", "s", "\n">>,
      <<".", "s", "u", "b", "c", "k", "t", " ", "O", " ", "a", "\n", ".", "s", "u", "b", "c", 
        "k", "t", " ", "I", " ", "c", "\n", ".", "e", "n", "d", "s", "\n", ".", "e", 
        "n", "d", "s", "\n", "X", "2", " ", "n", " ", "O", "\n">> }

\* Files whose last subcircuit has no .ends: one written inside another, and
\* one after a title and a .model line.
UnterminatedFiles ==
    { <<".", "s", "u", "b", "c", "k", "t", " ", "A", " ", "p", "\n", ".", "s", "u", "b", "c",
        "k", "t", " ", "B", " ", "q", "\n", "X", "1", " ", "n", " ", "A", "\n">>,
      <<"t", "\n", ".", "m", "o", "d", "e", "l", " ", "N", " ", "n", "m", "o", "s", "\n",
        ".", "s", "u", "b", "c", "k", "t", " ", "A", " ", "p", "\n", "X", "1", " ",
        "n", " ", "b", "\n">> }

\* Files with a blank physical line: as the first line of the file, before
\* one statement and before a statement with a continuation line, and as
\* the first line of the region after a subcircuit.
BlankFirstFiles ==
    { <<"\n", "R", "1", " ", "a", " ", "b", "\n">>,
      <<"\n", "R", "1", " ", "a", " ", "b", "\n", "+", " ", "w", "=", "1", "\n">>,
      <<".", "s", "u", "b", "c", "k", "t", " ", "B", " ", "p", "\n", ".", "e", "n", "d", "s", "\n", "\n", "R", "1", " ", "a", " ", "b", "\n">> }

VARIABLES
    netlist_file,    \* the bytes of the file at Parser.filepath
    parser,          \* Parser.parse(): pc, work_items, pending, failed,
                     \* all_cells, all_errors, all_includes
    model_registry,  \* the ModelRegistry handed to link()
    linker           \* link(): pc, exception, its locals and its LinkResult

pipeVars == <<netlist_file, parser, model_registry, linker>>

\* Parser.parse(): the work items are the regions of a scan of the file by
\* a new Scanner; no worker has returned yet.  Scanner.scan() opens the file
\* with open_mmap, and mmap raises ValueError on an empty file: parse() has
\* no handler for it.
ParseBegin ==
    /\ parser.pc = "ready"
    /\ parser' = IF Len(netlist_file) = 0
                 THEN [parser EXCEPT !.pc = "raised"]
                 ELSE [parser EXCEPT
                         !.pc = "running",
                         !.work_items = ScanRegions(netlist_file, ScanContext, 0),
                         !.pending = 1..Len(ScanRegions(netlist_file, ScanContext, 0))]
    /\ UNCHANGED <<netlist_file, model_registry, linker>>

\* The body of the loop of parse() over the results: the aggregate extended
\* by one worker's ParseResult.
Collect(p, result) ==
    [p EXCEPT
       !.all_cells = @ \o result.cells,
       !.all_errors = @ \o result.errors,
       !.all_includes = @ \cup { result.includes[k] : k \in 1..Len(result.includes) }]

\* imap_unordered hands over the result of the worker of item i, whichever
\* worker finishes next: _worker_entry_point parsed the region, and the
\* loop body extends the aggregate.
WorkerDone(i) ==
    /\ parser.pc = "running"
    /\ i \in parser.pending
    /\ parser' = Collect([parser EXCEPT !.pending = @ \ {i}],
                         ChunkParse(netlist_file, parser.work_items[i]))
    /\ UNCHANGED <<netlist_file, model_registry, linker>>

\* The worker of item i raised (open_mmap or the chunk parser failed in the
\* worker process): imap_unordered raises it again in the loop of parse(),
\* which has no handler, and the pool is terminated.
WorkerFails(i) ==
    /\ parser.pc = "running"
    /\ i \in parser.pending
    /\ parser' = [parser EXCEPT !.pc = "raised", !.failed = @ \cup {i}]
    /\ UNCHANGED <<netlist_file, model_registry, linker>>

\* Every worker has returned: parse() returns the aggregate ParseResult.
ParseReturn ==
    /\ parser.pc = "running"
    /\ parser.pending = {}
    /\ parser' = [parser EXCEPT !.pc = "returned"]
    /\ UNCHANGED <<netlist_file, model_registry, linker>>

(***************************************************************************)
(* LibraryProcessor (ingestor/library.py): section extraction.            *)
(***************************************************************************)

\* The characters \w matches in a bytes pattern.
WordChars ==
    { UpperAlpha[i] : i \in 1..Len(UpperAlpha) } \cup { LowerAlpha[i] : i \in 1..Len(LowerAlpha) }
    \cup Digits \cup {"_"}

RECURSIVE SkipWord(_, _)
\* Index of the first character at or after i that \w does not match.
SkipWord(s, i) == IF i <= Len(s) /\ s[i] \in WordChars THEN SkipWord(s, i + 1) ELSE i

\* The next position after p (1-based) where ^ matches under re.MULTILINE:
\* the position after the next newline; Len(s) + 2 when no line follows.
NextLine(s, p) ==
    IF \E i \in p..Len(s) : s[i] = "\n" THEN LineEnd(s, p) ELSE Len(s) + 2

\* SECTION_START matched at the line start p: ^\s*\.lib\s+(\w+), ignoring
\* case: [matched, section, end], end the 0-based offset match.end().
SECTION_START(content, p) ==
    LET d == SkipWs(content, p)
        w == d + 4
        n == SkipWs(content, w)
        e == SkipWord(content, n)
    IN IF MatchCI(content, d, <<".", "l", "i", "b">>) /\ n > w /\ e > n
       THEN [matched |-> TRUE, section |-> Slice(content, n, e), end |-> e - 1]
       ELSE [matched |-> FALSE, section |-> None, end |-> -1]

\* SECTION_END matched at the position p where ^ matches: ^\s*\.endl
SECTION_END(content, p) ==
    MatchCI(content, SkipWs(content, p), <<".", "e", "n", "d", "l">>)

RECURSIVE FindSectionStart(_, _, _)
\* The loop of _find_section over SECTION_START.finditer(content), from the
\* line start p on: match.end() of the first match whose section equals
\* section_name in lower case, -1 for None.
FindSectionStart(content, p, section_name) ==
    IF p > Len(content) THEN -1
    ELSE IF /\ SECTION_START(content, p).matched
            /\ Lower(SECTION_START(content, p).section) = Lower(section_name)
    THEN SECTION_START(content, p).end
    ELSE FindSectionStart(content, NextLine(content, p), section_name)

RECURSIVE FindSectionEnd(_, _)
\* SECTION_END.search(content[section_start:]) from the position p (1-based
\* in content) on, p the start of the slice or a line start in it:
\* the 0-based offset in content where the match starts, -1 for no match.
FindSectionEnd(content, p) ==
    IF p > Len(content) THEN -1
    ELSE IF SECTION_END(content, p) THEN p - 1
    ELSE FindSectionEnd(content, NextLine(content, p))

\* LibrarySection(name, content, start_byte, end_byte); found = FALSE for None.
LibrarySection(name, content, start_byte, end_byte) ==
    [found |-> TRUE, name |-> name, content |-> content,
     start_byte |-> start_byte, end_byte |-> end_byte]

\* _find_section from "remaining_content = content[section_start:]" on.
SectionFrom(content, section_name, section_start, end_match) ==
    IF section_start = -1
    THEN [found |-> FALSE, name |-> None, content |-> <<>>, start_byte |-> -1, end_byte |-> -1]
    ELSE IF end_match # -1
    THEN LibrarySection(section_name, Slice(content, section_start + 1, end_match + 1),
                        section_start, end_match)
    ELSE LibrarySection(section_name, Slice(content, section_start + 1, Len(content) + 1),
                        section_start, Len(content))

\* LibraryProcessor._find_section(mm, section_name) on the bytes of the file.
FindSection(content, section_name) ==
    SectionFrom(content, section_name, FindSectionStart(content, 1, section_name),
                IF FindSectionStart(content, 1, section_name) = -1 THEN -1
                ELSE FindSectionEnd(content, FindSectionStart(content, 1, section_name) + 1))

(***************************************************************************)
(* ModelRegistry (ingestor/registry.py)                                    *)
(***************************************************************************)

\* k in d, for a dict d held as a sequence of <<key, value>>.
DictHas(d, k) == \E i \in 1..Len(d) : d[i][1] = k

\* d[k]
DictGet(d, k) == d[CHOOSE i \in 1..Len(d) : d[i][1] = k][2]

\* list(d)
DictKeys(d) == [i \in 1..Len(d) |-> d[i][1]]

\* del d[k]
DictDel(d, k) ==
    LET idx == { i \in 1..Len(d) : d[i][1] # k }
    IN [n \in 1..Cardinality(idx) |->
          d[CHOOSE i \in idx : Cardinality({j \in idx : j < i}) = n - 1]]

\* ModelRegistry(): the field defaults, no model_resolver.
ModelRegistry ==
    [static_primitives |-> <<>>, static_macros |-> <<>>, library_content |-> <<>>,
     model_resolver |-> "None", resolved_cache |-> <<>>]

\* ModelRegistry.register_library_content(lib_path, content)
register_library_content(reg, lib_path, content) ==
    [reg EXCEPT !.library_content = DictSet(@, lib_path, content)]

RECURSIVE FindSubckt(_, _, _)
\* One match of SUBCKT_PATTERN.finditer in _find_subckt: m is the match
\* tried at the line start p.
SubcktAt(m, model_name, content, p) ==
    IF m.matched /\ Lower(m.name) = Lower(model_name)
    THEN m.name
    ELSE FindSubckt(model_name, content, NextLine(content, p))

\* SpiceModelResolver._find_subckt(model_name, content), the loop over
\* SUBCKT_PATTERN.finditer(content) from the line start p on: the name of
\* the first subcircuit whose name equals model_name in lower case, None
\* when there is none.
FindSubckt(model_name, content, p) ==
    IF p > Len(content) THEN None
    ELSE SubcktAt(RE_SUBCKT(Slice(content, p, Len(content) + 1)), model_name, content, p)

\* The primitive kind _find_model maps a .model type to, "" for the types
\* it passes over.
ModelTypeKind(model_type) ==
    IF model_type \in {<<"n", "m", "o", "s">>, <<"n", "m", "o", "s", "4">>,
                       <<"n", "m", "o", "s", "3">>} THEN "nmos"
    ELSE IF model_type \in {<<"p", "m", "o", "s">>, <<"p", "m", "o", "s", "4">>,
                            <<"p", "m", "o", "s", "3">>} THEN "pmos"
    ELSE IF model_type \in {<<"r", "e", "s">>, <<"r", "e", "s", "i", "s", "t", "o", "r">>}
    THEN "resistor"
    ELSE IF model_type \in {<<"c", "a", "p">>, <<"c", "a", "p", "a", "c", "i", "t", "o", "r">>}
    THEN "capacitor"
    ELSE IF model_type \in {<<"i", "n", "d">>, <<"i", "n", "d", "u", "c", "t", "o", "r">>}
    THEN "inductor"
    ELSE IF model_type \in {<<"d", "i", "o", "d", "e">>, <<"d">>} THEN "diode"
    ELSE ""

\* SpicePrimitiveTypes.get_instance(kind): the primitive of that kind, one
\* object for each kind.
get_instance(kind) == PrimitiveDef(kind)

RECURSIVE FindModel(_, _, _)
\* One match of MODEL_PATTERN.finditer in _find_model: m is the match tried
\* at the line start p, kind the primitive kind of its type.
ModelAt(m, kind, model_name, content, p) ==
    IF m.matched /\ Lower(m.name) = Lower(model_name) /\ kind # ""
    THEN get_instance(kind)
    ELSE FindModel(model_name, content, NextLine(content, p))

\* The match m of MODEL_PATTERN with the kind of its type.
ModelMatch(m, model_name, content, p) ==
    ModelAt(m, IF m.matched THEN ModelTypeKind(Lower(m.type)) ELSE "", model_name, content, p)

\* SpiceModelResolver._find_model(model_name, content), the loop over
\* MODEL_PATTERN.finditer(content) from the line start p on: the primitive
\* of the first .model of that name whose type is known, NoDef for None.
FindModel(model_name, content, p) ==
    IF p > Len(content) THEN NoDef
    ELSE ModelMatch(RE_MODEL(Slice(content, p, Len(content) + 1)), model_name, content, p)

\* resolve_model of the resolver from "if subckt := ..." on, subckt the name
\* _find_subckt found.
ResolverResult(subckt, model_name, library_content, heap) ==
    IF subckt # None
    THEN [model |-> MacroDef(subckt, heap + 1), heap |-> heap + 1]
    ELSE [model |-> FindModel(model_name, library_content, 1), heap |-> heap]

\* SpiceModelResolver.resolve_model(model_name, library_content) when heap
\* objects were made before: [model, heap].  A subcircuit found is a new
\* Subckt object each time (its identity is the count of objects made);
\* the bodies of the library subcircuits hold no M line.
SpiceModelResolver(model_name, library_content, heap) ==
    ResolverResult(FindSubckt(model_name, library_content, 1), model_name,
                   library_content, heap)

RECURSIVE LibraryLoop(_, _, _)
\* One turn of the loop of resolve_model over library_content.values():
\* found is what the resolver made of the first of the contents left.
LibraryTurn(found, model_name_lower, contents) ==
    IF found.model.kind # "None" THEN found
    ELSE LibraryLoop(model_name_lower, Tail(contents), found.heap)

\* The loop of resolve_model over library_content.values(), from the
\* contents left: [model, heap], the first model a content resolves to.
LibraryLoop(model_name_lower, contents, heap) ==
    IF contents = <<>> THEN [model |-> NoDef, heap |-> heap]
    ELSE LibraryTurn(SpiceModelResolver(model_name_lower, Head(contents)[2], heap),
                     model_name_lower, contents)

\* resolve_model after the lookups in the cache and the static tables
\* failed: the library loop when there is a model_resolver, and the cache
\* entry for what it gave (None included).
ResolveDynamic(reg, model_name_lower, found) ==
    [registry |-> [reg EXCEPT !.resolved_cache = DictSet(@, model_name_lower, found.model)],
     model |-> found.model, heap |-> found.heap]

\* resolve_model as it would be without the lookup in resolved_cache.
resolve_model_NoCache(reg, model_name, heap) ==
    LET model_name_lower == Lower(model_name)
        cached(model) ==
            [registry |-> [reg EXCEPT !.resolved_cache = DictSet(@, model_name_lower, model)],
             model |-> model, heap |-> heap]
    IN IF DictHas(reg.static_primitives, model_name_lower)
       THEN cached(DictGet(reg.static_primitives, model_name_lower))
       ELSE IF DictHas(reg.static_macros, model_name_lower)
       THEN cached(DictGet(reg.static_macros, model_name_lower))
       ELSE IF reg.model_resolver # "None"
       THEN ResolveDynamic(reg, model_name_lower,
                           LibraryLoop(model_name_lower, reg.library_content, heap))
       ELSE cached(NoDef)

\* resolve_model as it would be if it looked in static_macros before
\* static_primitives.
resolve_model_MacrosFirst(reg, model_name, heap) ==
    LET model_name_lower == Lower(model_name)
        cached(model) ==
            [registry |-> [reg EXCEPT !.resolved_cache = DictSet(@, model_name_lower, model)],
             model |-> model, heap |-> heap]
    IN IF DictHas(reg.resolved_cache, model_name_lower)
       THEN [registry |-> reg, model |-> DictGet(reg.resolved_cache, model_name_lower),
             heap |-> heap]
       ELSE IF DictHas(reg.static_macros, model_name_lower)
       THEN cached(DictGet(reg.static_macros, model_name_lower))
       ELSE IF DictHas(reg.static_primitives, model_name_lower)
       THEN cached(DictGet(reg.static_primitives, model_name_lower))
       ELSE IF reg.model_resolver # "None"
       THEN ResolveDynamic(reg, model_name_lower,
                           LibraryLoop(model_name_lower, reg.library_content, heap))
       ELSE cached(NoDef)

\* ModelRegistry.resolve_model(model_name) when heap objects were made by
\* the resolver before: [registry, model, heap], the registry after the
\* call, the definition returned (NoDef for None) and the objects made.
resolve_model(reg, model_name, heap) ==
    LET model_name_lower == Lower(model_name)
        cached(model) ==
            [registry |-> [reg EXCEPT !.resolved_cache = DictSet(@, model_name_lower, model)],
             model |-> model, heap |-> heap]
    IN IF DictHas(reg.resolved_cache, model_name_lower)
       THEN [registry |-> reg, model |-> DictGet(reg.resolved_cache, model_name_lower),
             heap |-> heap]
       ELSE IF DictHas(reg.static_primitives, model_name_lower)
       THEN cached(DictGet(reg.static_primitives, model_name_lower))
       ELSE IF DictHas(reg.static_macros, model_name_lower)
       THEN cached(DictGet(reg.static_macros, model_name_lower))
       ELSE IF reg.model_resolver # "None"
       THEN ResolveDynamic(reg, model_name_lower,
                           LibraryLoop(model_name_lower, reg.library_content, heap))
       ELSE cached(NoDef)

(***************************************************************************)
(* link (ingestor/linker.py)                                               *)
(***************************************************************************)

UNNAMED_CELL == "UNNAMED_CELL"

DUPLICATE_DEFINITION == "DUPLICATE_DEFINITION"

UNDEFINED_MODEL == "UNDEFINED_MODEL"

CIRCULAR_DEPENDENCY == "CIRCULAR_DEPENDENCY"

\* LinkError(error_type, message, affected_cells), without the message.
LinkError(error_type, affected_cells) ==
    [error_type |-> error_type, affected_cells |-> affected_cells]

\* The Macro object of cells that was read in the region starting at origin.
MacroAt(cells, origin) ==
    cells[CHOOSE i \in 1..Len(cells) : cells[i].type = "Macro" /\ cells[i].origin = origin]

RECURSIVE BuildMacroTable(_, _, _)
\* _build_macro_table(parse_result, errors) from the cells left: the dict
\* macro_by_name, each Macro object given by its origin, and the errors.
BuildMacroTable(cells, macro_by_name, errors) ==
    IF cells = <<>> THEN [macro_by_name |-> macro_by_name, errors |-> errors]
    ELSE LET cell == Head(cells)
         IN IF cell.type # "Macro"
            THEN BuildMacroTable(Tail(cells), macro_by_name, errors)
            ELSE IF cell.name = None
            THEN BuildMacroTable(Tail(cells), macro_by_name,
                                 Append(errors, LinkError(UNNAMED_CELL, <<>>)))
            ELSE IF DictHas(macro_by_name, cell.name)
            THEN BuildMacroTable(Tail(cells), macro_by_name,
                                 Append(errors, LinkError(DUPLICATE_DEFINITION, <<cell.name>>)))
            ELSE BuildMacroTable(Tail(cells), DictSet(macro_by_name, cell.name, cell.origin),
                                 errors)

RECURSIVE RegisterMacros(_, _)
\* The loop of link() over macro_by_name.items():
\* static_macros[name.lower()] = macro.
RegisterMacros(reg, items) ==
    IF items = <<>> THEN reg
    ELSE RegisterMacros(
             [reg EXCEPT !.static_macros =
                 DictSet(@, Lower(Head(items)[1]), MacroDef(Head(items)[1], Head(items)[2]))],
             Tail(items))

\* _resolve_instance_model(instance, model_registry, errors):
\* [instance, registry, errors] after it.
ResolveInstanceModel(instance, reg, errors) ==
    IF instance.definition_name = None
    THEN [instance |-> instance, registry |-> reg, errors |-> errors]
    ELSE LET r == resolve_model(reg, instance.definition_name, 0)
         IN IF r.model.kind # "None"
            THEN [instance |-> [instance EXCEPT !.definition = r.model],
                  registry |-> r.registry, errors |-> errors]
            ELSE [instance |-> instance, registry |-> r.registry,
                  errors |-> Append(errors, LinkError(UNDEFINED_MODEL, <<instance.name>>))]

RECURSIVE ResolveChildren(_, _, _, _)
\* The inner loop of _resolve_instances over the children of one macro from
\* child k on: [children, registry, errors, raised].  A child that is a
\* Model has no definition_name attribute.
ResolveChildren(children, k, reg, errors) ==
    IF k > Len(children)
    THEN [children |-> children, registry |-> reg, errors |-> errors, raised |-> ""]
    ELSE IF children[k].type # "Instance"
    THEN [children |-> children, registry |-> reg, errors |-> errors,
          raised |-> "AttributeError"]
    ELSE LET r == ResolveInstanceModel(children[k], reg, errors)
         IN ResolveChildren([children EXCEPT ![k] = r.instance], k + 1, r.registry, r.errors)

RECURSIVE ResolveInstances(_, _, _, _, _)
\* _resolve_instances(parse_result, model_registry, errors) from cell i on:
\* [cells, instances, registry, errors, raised]; an instance is given by
\* where its object is, <<cell, 0>> or <<cell, child>>.
ResolveInstances(cells, i, instances, reg, errors) ==
    IF i > Len(cells)
    THEN [cells |-> cells, instances |-> instances, registry |-> reg, errors |-> errors,
          raised |-> ""]
    ELSE IF cells[i].type = "Instance"
    THEN LET r == ResolveInstanceModel(cells[i], reg, errors)
         IN ResolveInstances([cells EXCEPT ![i] = r.instance], i + 1,
                             Append(instances, <<i, 0>>), r.registry, r.errors)
    ELSE IF cells[i].type = "Macro"
    THEN LET r == ResolveChildren(cells[i].children, 1, reg, errors)
             cells1 == [cells EXCEPT ![i].children = r.children]
         IN IF r.raised # ""
            THEN [cells |-> cells1, instances |-> instances, registry |-> r.registry,
                  errors |-> r.errors, raised |-> r.raised]
            ELSE ResolveInstances(cells1, i + 1,
                                  instances \o [k \in 1..Len(r.children) |-> <<i, k>>],
                                  r.registry, r.errors)
    ELSE ResolveInstances(cells, i + 1, instances, reg, errors)

\* The instance object a place of the instances list stands for.
InstanceAt(cells, place) ==
    IF place[2] = 0 THEN cells[place[1]] ELSE cells[place[1]].children[place[2]]

\* instance.definition.ports
DefinitionPorts(cells, definition) ==
    IF definition.kind = "Primitive" THEN PrimitivePorts(definition.name)
    ELSE MacroAt(cells, definition.id).ports

\* instance.nets = dict(zip(instance.nets, instance.definition.ports)) when
\* the instance has a definition: zip stops at the shorter of the two.
ZipNets(cells, c) ==
    IF c.type = "Instance" /\ c.definition.kind # "None"
    THEN LET ports == DefinitionPorts(cells, c.definition)
             n     == IF Len(c.nets) < Len(ports) THEN Len(c.nets) ELSE Len(ports)
         IN [c EXCEPT !.nets = [k \in 1..n |-> [net |-> c.nets[k].net, port |-> ports[k]]]]
    ELSE c

\* The loop of link() over instances, which holds every Instance cell and
\* every child of every Macro cell once: the cells after it.
ZipAll(cells) ==
    [i \in 1..Len(cells) |->
        IF cells[i].type = "Macro"
        THEN [cells[i] EXCEPT !.children = [k \in 1..Len(@) |-> ZipNets(cells, @[k])]]
        ELSE ZipNets(cells, cells[i])]

\* nx.DiGraph(): the adjacency dict, node -> list of successors.
DiGraph == <<>>

\* DiGraph.add_node(n)
add_node(graph, n) == IF DictHas(graph, n) THEN graph ELSE Append(graph, <<n, <<>>>>)

\* DiGraph.add_edge(u, v)
add_edge(graph, u, v) ==
    LET g    == add_node(add_node(graph, u), v)
        succ == DictGet(g, u)
    IN IF \E k \in 1..Len(succ) : succ[k] = v THEN g ELSE DictSet(g, u, Append(succ, v))

RECURSIVE AddNodes(_, _)
\* The first loop of _build_dependency_graph.
AddNodes(graph, names) ==
    IF names = <<>> THEN graph ELSE AddNodes(add_node(graph, Head(names)), Tail(names))

RECURSIVE AddChildEdges_Reversed(_, _, _)
\* The inner loop of _build_dependency_graph adding each edge from the
\* instantiated macro to the macro that holds the instance.
AddChildEdges_Reversed(graph, name, children) ==
    IF children = <<>> THEN graph
    ELSE IF Head(children).definition.kind = "Macro"
    THEN AddChildEdges_Reversed(add_edge(graph, Head(children).definition.name, name),
                                name, Tail(children))
    ELSE AddChildEdges_Reversed(graph, name, Tail(children))

RECURSIVE AddChildEdges(_, _, _)
\* The inner loop of _build_dependency_graph over the children of the macro
\* called name: an edge to the macro each child instantiates.
AddChildEdges(graph, name, children) ==
    IF children = <<>> THEN graph
    ELSE IF Head(children).definition.kind = "Macro"
    THEN AddChildEdges(add_edge(graph, name, Head(children).definition.name),
                       name, Tail(children))
    ELSE AddChildEdges(graph, name, Tail(children))

RECURSIVE AddEdges(_, _, _)
\* The second loop of _build_dependency_graph over macro_by_name.values().
AddEdges(graph, cells, items) ==
    IF items = <<>> THEN graph
    ELSE AddEdges(AddChildEdges(graph, Head(items)[1], MacroAt(cells, Head(items)[2]).children),
                  cells, Tail(items))

\* _build_dependency_graph(macro_by_name)
BuildDependencyGraph(cells, macro_by_name) ==
    AddEdges(AddNodes(DiGraph, DictKeys(macro_by_name)), cells, macro_by_name)

\* G.in_degree(n)
InDegree(graph, n) ==
    Cardinality({ i \in 1..Len(graph) : \E k \in 1..Len(graph[i][2]) : graph[i][2][k] = n })

RECURSIVE VisitChildren(_, _, _)
\* nx.topological_generations, the loop over G.neighbors(node): the
\* in-degree of each child drops by one, a child at zero joins the next
\* generation.
VisitChildren(children, indegree_map, zero_indegree) ==
    IF children = <<>> THEN [indegree_map |-> indegree_map, zero_indegree |-> zero_indegree]
    ELSE LET child == Head(children)
             d     == DictGet(indegree_map, child) - 1
         IN IF d = 0
            THEN VisitChildren(Tail(children), DictDel(indegree_map, child),
                               Append(zero_indegree, child))
            ELSE VisitChildren(Tail(children), DictSet(indegree_map, child, d), zero_indegree)

RECURSIVE VisitGeneration(_, _, _, _)
\* nx.topological_generations, the loop over this_generation.
VisitGeneration(graph, this_generation, indegree_map, zero_indegree) ==
    IF this_generation = <<>>
    THEN [indegree_map |-> indegree_map, zero_indegree |-> zero_indegree]
    ELSE LET v == VisitChildren(DictGet(graph, Head(this_generation)),
                                indegree_map, zero_indegree)
         IN VisitGeneration(graph, Tail(this_generation), v.indegree_map, v.zero_indegree)

RECURSIVE Generations(_, _, _, _)
\* nx.topological_generations, the while loop: [order, indegree_map], the
\* nodes yielded and the in-degrees that never reached zero.
Generations(graph, zero_indegree, indegree_map, order) ==
    IF zero_indegree = <<>> THEN [order |-> order, indegree_map |-> indegree_map]
    ELSE LET v == VisitGeneration(graph, zero_indegree, indegree_map, <<>>)
         IN Generations(graph, v.zero_indegree, v.indegree_map, order \o zero_indegree)

\* list(nx.topological_sort(graph)): [order, raised]; NetworkXUnfeasible
\* when some in-degree never reached zero.
topological_sort(graph) ==
    LET nodes == DictKeys(graph)
        sel(P(_)) ==
            LET idx == { i \in 1..Len(nodes) : P(nodes[i]) }
            IN [n \in 1..Cardinality(idx) |->
                  nodes[CHOOSE i \in idx : Cardinality({j \in idx : j < i}) = n - 1]]
        IsZero(n) == InDegree(graph, n) = 0
        IsPos(n)  == InDegree(graph, n) > 0
        pos  == sel(IsPos)
        g    == Generations(graph, sel(IsZero),
                            [i \in 1..Len(pos) |-> <<pos[i], InDegree(graph, pos[i])>>], <<>>)
    IN [order |-> g.order,
        raised |-> IF g.indegree_map # <<>> THEN "NetworkXUnfeasible" ELSE ""]

\* The base class of each exception class of networkx.
ExceptionBase(cls) ==
    IF cls = "NetworkXUnfeasible" THEN "NetworkXAlgorithmError"
    ELSE IF cls \in {"NetworkXAlgorithmError", "NetworkXError"} THEN "NetworkXException"
    ELSE "Exception"

RECURSIVE IsSubclass(_, _)
\* issubclass(cls, base), which decides whether "except base" handles cls.
IsSubclass(cls, base) ==
    IF cls = base THEN TRUE
    ELSE IF cls = "Exception" THEN FALSE
    ELSE IsSubclass(ExceptionBase(cls), base)

\* nx.find_cycle(graph): the nodes of one cycle of the graph, each the tail
\* of one of its edges.  Which cycle the depth-first search meets first is
\* left open.
find_cycle(graph) ==
    LET nodes == DictKeys(graph)
        edge(u, v) == \E k \in 1..Len(DictGet(graph, u)) : DictGet(graph, u)[k] = v
    IN CHOOSE c \in UNION { [1..n -> { nodes[i] : i \in 1..Len(nodes) }] : n \in 1..Len(nodes) } :
          /\ \A i, j \in 1..Len(c) : i # j => c[i] # c[j]
          /\ \A i \in 1..(Len(c) - 1) : edge(c[i], c[i + 1])
          /\ edge(c[Len(c)], c[1])

\* _topological_sort after list(nx.topological_sort(graph)) gave t: the
\* sorted macros when it returned, the except clause when it raised a
\* NetworkXError, the exception otherwise; [sorted_macros, errors, graph,
\* raised], the macros given by their origins.
SortOutcome(macro_by_name, graph, t) ==
    IF t.raised = ""
    THEN [sorted_macros |-> [i \in 1..Len(t.order) |-> DictGet(macro_by_name, t.order[i])],
          errors |-> <<>>, graph |-> graph, raised |-> ""]
    ELSE IF IsSubclass(t.raised, "NetworkXError")
    THEN [sorted_macros |-> [i \in 1..Len(macro_by_name) |-> macro_by_name[i][2]],
          errors |-> <<LinkError(CIRCULAR_DEPENDENCY, find_cycle(graph))>>,
          graph |-> graph, raised |-> ""]
    ELSE [sorted_macros |-> <<>>, errors |-> <<>>, graph |-> graph, raised |-> t.raised]

\* _topological_sort on the graph built.
SortGraph(macro_by_name, graph) ==
    SortOutcome(macro_by_name, graph, topological_sort(graph))

\* _topological_sort(macro_by_name)
TopologicalSort(cells, macro_by_name) ==
    SortGraph(macro_by_name, BuildDependencyGraph(cells, macro_by_name))

\* _collect_primitives(instances): the set of primitive classes in use.
CollectPrimitives(cells, instances) ==
    { InstanceAt(cells, instances[k]).definition.name :
        k \in { j \in 1..Len(instances) :
                  InstanceAt(cells, instances[j]).definition.kind = "Primitive" } }

\* [inst for inst in instances if inst.parent is None]
TopInstances(instances) ==
    LET idx == { k \in 1..Len(instances) : instances[k].parent = None }
    IN [n \in 1..Cardinality(idx) |->
          instances[CHOOSE k \in idx : Cardinality({j \in idx : j < k}) = n - 1]]

\* What link() leaves when it raises exception.
LinkRaised(exception, reg, macro_by_name, instances, graph) ==
    [pc |-> "raised", exception |-> exception, registry |-> reg,
     macro_by_name |-> macro_by_name, instances |-> instances, graph |-> graph,
     result |-> [netlist |-> [primitives |-> {}, macros |-> <<>>, top_instances |-> <<>>],
                 errors |-> <<>>, top_instances |-> <<>>]]

\* link() from _topological_sort on: cells and instances are the objects
\* after the nets were zipped, top what _topological_sort made of them.
LinkSorted(table, res, cells, instances, top) ==
    IF top.raised # ""
    THEN LinkRaised(top.raised, res.registry, table.macro_by_name, instances, top.graph)
    ELSE [pc |-> "returned", exception |-> "", registry |-> res.registry,
          macro_by_name |-> table.macro_by_name, instances |-> instances,
          graph |-> top.graph,
          result |->
             [netlist |->
                 [primitives |-> CollectPrimitives(cells, res.instances),
                  macros |-> [i \in 1..Len(top.sorted_macros) |->
                                 MacroAt(cells, top.sorted_macros[i])],
                  top_instances |-> TopInstances(instances)],
              errors |-> res.errors \o top.errors,
              top_instances |-> TopInstances(instances)]]

\* link() from the loop that zips the nets on; cells are the objects after
\* that loop.
LinkZipped(table, res, cells) ==
    LinkSorted(table, res, cells,
               [k \in 1..Len(res.instances) |-> InstanceAt(cells, res.instances[k])],
               TopologicalSort(cells, table.macro_by_name))

\* link() after _resolve_instances returned res, or raised.
LinkResolved(table, res) ==
    IF res.raised # ""
    THEN LinkRaised(res.raised, res.registry, table.macro_by_name, <<>>, DiGraph)
    ELSE LinkZipped(table, res, ZipAll(res.cells))

\* link() after _build_macro_table returned table.
LinkTabled(cells, reg, table) ==
    LinkResolved(table,
                 ResolveInstances(cells, 1, <<>>, RegisterMacros(reg, table.macro_by_name),
                                  table.errors))

\* link(parse_result, model_registry, netlist_class) as one run:
\* [pc, exception, registry, macro_by_name, instances, graph, result].
link(cells, reg) == LinkTabled(cells, reg, BuildMacroTable(cells, <<>>, <<>>))

\* A Parser on one of the files, a new ModelRegistry, link() not called.
PipeInit ==
    /\ netlist_file \in NetlistFiles \cup LineFiles \cup NestedFiles \cup UnterminatedFiles
                       \cup BlankFirstFiles
    /\ parser = [pc |-> "ready", work_items |-> <<>>, pending |-> {}, failed |-> {},
                 all_cells |-> <<>>, all_errors |-> <<>>, all_includes |-> {}]
    /\ model_registry = ModelRegistry
    /\ linker = [pc |-> "ready", exception |-> "", macro_by_name |-> <<>>,
                 instances |-> <<>>, graph |-> DiGraph,
                 result |-> [netlist |-> [primitives |-> {}, macros |-> <<>>,
                                          top_instances |-> <<>>],
                             errors |-> <<>>, top_instances |-> <<>>]]

\* No Parser: the pipeline variables of a specification that has none.
PipeIdle ==
    [netlist_file |-> <<>>,
     parser |-> [pc |-> "idle", work_items |-> <<>>, pending |-> {}, failed |-> {},
                 all_cells |-> <<>>, all_errors |-> <<>>, all_includes |-> {}],
     model_registry |-> ModelRegistry,
     linker |-> [pc |-> "idle", exception |-> "", macro_by_name |-> <<>>,
                 instances |-> <<>>, graph |-> DiGraph,
                 result |-> [netlist |-> [primitives |-> {}, macros |-> <<>>,
                                          top_instances |-> <<>>],
                             errors |-> <<>>, top_instances |-> <<>>]]]

\* The variables after link() ran as run.
LinkDone(run) ==
    /\ linker' = [pc |-> run.pc, exception |-> run.exception,
                  macro_by_name |-> run.macro_by_name, instances |-> run.instances,
                  graph |-> run.graph, result |-> run.result]
    /\ model_registry' = run.registry

\* link(parse_result, model_registry, SpiceNetlist) on what parse() returned.
Link ==
    /\ parser.pc = "returned"
    /\ linker.pc = "ready"
    /\ LinkDone(link(parser.all_cells, model_registry))
    /\ UNCHANGED <<netlist_file, parser>>

(***************************************************************************)
(* CircuitGraph (graph_analysis/circuit_graph.py): from_macro on a macro   *)
(* of the parsed or of the linked file.                                    *)
(***************************************************************************)

VARIABLES
    circuit_graph    \* CircuitGraph.from_macro(macro): pc, the macro, nets,
                     \* instance_metadata, and the exception it raised

graphVars == <<circuit_graph>>

\* CircuitGraph(): no nets, no metadata; macro is the one from_macro is
\* called with.
CircuitGraph(macro) ==
    [pc |-> "new", macro |-> macro, nets |-> <<>>, instance_metadata |-> <<>>, raised |-> ""]

\* No CircuitGraph: the graph variable of a specification that has none.
GraphIdle == [CircuitGraph(Subckt(None, <<>>, 0)) EXCEPT !.pc = "idle"]

\* CircuitGraph._format_port_identifier(ref_des, formal_port)
FormatPortIdentifier(ref_des, formal_port) ==
    IF formal_port # None THEN ref_des \o <<".">> \o formal_port ELSE ref_des

\* CircuitGraph.add_connection(net_name, port_name)
add_connection(graph, net_name, port_name) ==
    [graph EXCEPT !.nets =
        IF DictHas(@, net_name) THEN DictSet(@, net_name, Append(DictGet(@, net_name), port_name))
        ELSE DictSet(@, net_name, <<port_name>>)]

RECURSIVE AddConnections(_, _, _, _)
\* The loop of _process_instance_connections over instance.nets.items().
AddConnections(graph, ref_des, nets, k) ==
    IF k > Len(nets) THEN graph
    ELSE AddConnections(add_connection(graph, nets[k].net,
                                       FormatPortIdentifier(ref_des, nets[k].port)),
                        ref_des, nets, k + 1)

\* The model name _process_instance_connections records for an instance.
ModelNameOf(instance) ==
    IF instance.definition.kind = "Primitive" THEN instance.definition.name
    ELSE IF instance.definition.kind = "Macro" /\ instance.definition.name # <<>>
    THEN instance.definition.name
    ELSE IF instance.definition_name # None THEN instance.definition_name
    ELSE <<"U", "n", "k", "n", "o", "w", "n">>

\* CircuitGraph._process_instance_connections(instance).  A child that is a
\* Model has no attribute definition: reading it raises AttributeError.
ProcessInstanceConnections(graph, instance) ==
    IF instance.type # "Instance" THEN [graph EXCEPT !.raised = "AttributeError"]
    ELSE AddConnections([graph EXCEPT !.instance_metadata =
                                          DictSet(@, instance.name, ModelNameOf(instance))],
                        instance.name, instance.nets, 1)

RECURSIVE PopulateFromMacro(_, _, _)
\* CircuitGraph._populate_from_macro(macro) from child k on; the loop stops
\* at the first exception.
PopulateFromMacro(graph, children, k) ==
    IF k > Len(children) \/ graph.raised # "" THEN graph
    ELSE PopulateFromMacro(ProcessInstanceConnections(graph, children[k]), children, k + 1)

\* CircuitGraph.from_macro(macro)
from_macro(macro) ==
    LET graph == PopulateFromMacro(CircuitGraph(macro), macro.children, 1)
    IN [graph EXCEPT !.pc = IF graph.raised # "" THEN "raised" ELSE "built"]

\* SpiceNetlist.top: Subckt(name="", ports=(), children=self._top_instances)
NetlistTop(netlist) == [Subckt(<<>>, <<>>, 0) EXCEPT !.children = netlist.top_instances]

\* The macros from_macro may be called with: the macros of the ParseResult
\* before link(), the macros of the linked netlist and its top (as
\* from_netlist does) after it.
GraphMacros ==
    IF linker.pc = "returned"
    THEN { linker.result.netlist.macros[i] : i \in 1..Len(linker.result.netlist.macros) }
         \cup { NetlistTop(linker.result.netlist) }
    ELSE { parser.all_cells[i] :
             i \in { j \in 1..Len(parser.all_cells) : parser.all_cells[j].type = "Macro" } }

\* graph = CircuitGraph.from_macro(macro)
FromMacro ==
    /\ parser.pc = "returned"
    /\ circuit_graph.pc = "new"
    /\ \E macro \in GraphMacros : circuit_graph' = from_macro(macro)
    /\ UNCHANGED <<netlist_file, parser, model_registry, linker>>

(***************************************************************************)
(* The library flow (ingestor/factory.py, get_netlist steps 2 and 4): one  *)
(* section of one library file is extracted and registered, then names are *)
(* resolved against the registry.                                          *)
(***************************************************************************)

MaxLibLines == 3

MaxCalls == 3

\* The lines a library file is made of.
LibLines ==
    { <<".", "l", "i", "b", " ", "t", "t", "\n">>,
      <<".", "l", "i", "b", " ", "F", "F", "\n">>,
      <<".", "e", "n", "d", "l", "\n">>,
      <<".", "m", "o", "d", "e", "l", " ", "n", "c", "h", " ", "n", "m", "o", "s", "\n">>,
      <<".", "s", "u", "b", "c", "k", "t", " ", "i", "n", "v", " ", "a", "\n", ".", "e", "n", "d", "s", "\n">>,
      <<".", "i", "n", "c", "l", "u", "d", "e", " ", "x", "\n">> }

\* The library files: the sequences of their lines.
LibraryFiles == UNION { [1..n -> LibLines] : n \in 1..MaxLibLines }

\* The section names a directive asks for; None asks for the whole file.
SectionNames == { None, <<"t", "t">>, <<"f", "f">> }

\* The names resolve_model is called with.
ModelNames == { <<"n", "c", "h">>, <<"i", "n", "v">>, <<"I", "N", "V">> }

VARIABLES
    lib_file,           \* the lines of the file at lib_directive.filepath
    lib_directive,      \* the LibraryDirective: section
    library_processor,  \* extract_section(): pc, section, lib_content, raised
    library_registry,   \* the ModelRegistry of get_netlist
    resolved            \* the Subckt objects made so far (heap), and the
                        \* resolve_model calls made: [name, model]

libVars == <<lib_file, lib_directive, library_processor, library_registry, resolved>>

\* The path of the library file.
LibPath == Path("r", "l", FALSE)

RECURSIVE FindInclude(_, _)
\* INCLUDE_PATTERN.search(content) from the line start p on:
\* ^\s*\.include\s+[^\s]+, ignoring case.
FindInclude(content, p) ==
    IF p > Len(content) THEN FALSE
    ELSE IF /\ MatchCI(content, SkipWs(content, p), <<".", "i", "n", "c", "l", "u", "d", "e">>)
            /\ SkipWs(content, SkipWs(content, p) + 8) > SkipWs(content, p) + 8
            /\ SkipWs(content, SkipWs(content, p) + 8) <= Len(content)
    THEN TRUE
    ELSE FindInclude(content, NextLine(content, p))

\* LibraryProcessor._resolve_includes(base_path, content): [raised, content].
\* No file stands next to the library file or in the working directory, so
\* _load_include_file raises for the first directive found.
ResolveLibraryIncludes(content) ==
    IF FindInclude(content, 1)
    THEN [raised |-> "FileNotFoundError", content |-> <<>>]
    ELSE [raised |-> "", content |-> content]

\* No section: LibrarySection is None.
NoSection == [found |-> FALSE, name |-> None, content |-> <<>>, start_byte |-> -1, end_byte |-> -1]

\* LibraryProcessor.extract_section(lib_path, section_name) on the bytes of
\* the file: [raised, section, content].
extract_section(content, section_name) ==
    IF section_name = None
    THEN [raised |-> ResolveLibraryIncludes(content).raised, section |-> NoSection,
          content |-> ResolveLibraryIncludes(content).content]
    ELSE IF ~FindSection(content, section_name).found
    THEN [raised |-> "ValueError", section |-> NoSection, content |-> <<>>]
    ELSE [raised |-> ResolveLibraryIncludes(FindSection(content, section_name).content).raised,
          section |-> FindSection(content, section_name),
          content |-> ResolveLibraryIncludes(FindSection(content, section_name).content).content]

\* The state after construction: a library file, a directive naming it, a
\* new LibraryProcessor, and a ModelRegistry with the SpiceModelResolver
\* whose static_macros are the macros link() took from the parsed file and
\* whose static_primitives are empty or hold a primitive under the name inv.
LibInit ==
    /\ lib_file \in LibraryFiles
    /\ lib_directive \in [section : SectionNames]
    /\ library_processor = [pc |-> "new", section |-> NoSection, lib_content |-> <<>>,
                            raised |-> ""]
    /\ \E parsed \in { <<>>, << <<<<"i", "n", "v">>, MacroDef(<<"i", "n", "v">>, 1)>> >> },
          primitives \in { <<>>, << <<<<"i", "n", "v">>, PrimitiveDef("resistor")>> >> } :
          /\ library_registry = [ModelRegistry EXCEPT !.model_resolver = "SpiceModelResolver",
                                                      !.static_primitives = primitives,
                                                      !.static_macros = parsed]
          /\ resolved = [heap |-> Len(parsed), calls |-> <<>>]

\* No library: the library variables of a specification that has none.
LibIdle ==
    [lib_file |-> <<>>,
     lib_directive |-> [section |-> None],
     library_processor |-> [pc |-> "idle", section |-> NoSection, lib_content |-> <<>>,
                            raised |-> ""],
     library_registry |-> ModelRegistry,
     resolved |-> [heap |-> 0, calls |-> <<>>]]

\* The variables after extract_section returned or raised as run.
Extracted(run) ==
    library_processor' = [pc |-> IF run.raised # "" THEN "raised" ELSE "extracted",
                          section |-> run.section, lib_content |-> run.content,
                          raised |-> run.raised]

\* lib_content = library_processor.extract_section(lib_path, lib_directive.section)
ExtractSection ==
    /\ library_processor.pc = "new"
    /\ Extracted(extract_section(Flatten(lib_file), lib_directive.section))
    /\ UNCHANGED <<lib_file, lib_directive, library_registry, resolved>>

\* model_registry.register_library_content(str(lib_path), lib_content)
RegisterLibraryContent ==
    /\ library_processor.pc = "extracted"
    /\ library_processor' = [library_processor EXCEPT !.pc = "registered"]
    /\ library_registry' = register_library_content(library_registry, LibPath,
                                                    library_processor.lib_content)
    /\ UNCHANGED <<lib_file, lib_directive, resolved>>

\* The variables after resolve_model(model_name) returned as run.
Resolved(model_name, run) ==
    /\ library_registry' = run.registry
    /\ resolved' = [heap |-> run.heap,
                    calls |-> Append(resolved.calls, [name |-> model_name, model |-> run.model])]

\* model_registry.resolve_model(model_name), as link() calls it for an
\* instance that names model_name.  The registry takes the call from its
\* construction on, before the library content is registered as well as
\* after.
ResolveModel(model_name) ==
    /\ library_processor.pc \in {"new", "registered"}
    /\ Len(resolved.calls) < MaxCalls
    /\ Resolved(model_name, resolve_model(library_registry, model_name, resolved.heap))
    /\ UNCHANGED <<lib_file, lib_directive, library_processor>>

(***************************************************************************)
(* The line parser on one logical line                                     *)
(***************************************************************************)

\* The logical lines handed to the line parser: a statement head of each
\* kind, followed by parameters written with and without blanks round "=".
StatementHeads ==
    { <<".", "s", "u", "b", "c", "k", "t", " ", "A", " ", "p", " ", "q">>,
      <<".", "m", "o", "d", "e", "l", " ", "N", " ", "n", "m", "o", "s">>,
      <<"X", "1", " ", "n", " ", "A">>,
      <<"X", "1">>,
      <<"R", "1", " ", "a", " ", "b">>,
      <<"C", "1", " ", "a", " ", "b">>,
      <<"L", "1", " ", "a", " ", "b">>,
      <<"M", "1", " ", "y", " ", "a", " ", "0", " ", "0", " ", "n", "m", "o", "s">>,
      <<"m", "2", " ", "d", " ", "g", " ", "s", " ", "b", " ", "p", "c", "h">>,
      <<"D", "1", " ", "a", " ", "k", " ", "d", "m">>,
      <<"Q", "1", " ", "c", " ", "b", " ", "e">>,
      <<".", "l", "i", "b", " ", "t", "t">>,
      <<".", "e", "n", "d", "l", " ", "t", "t">>,
      <<".", "e", "n", "d", "l">> }

ParamTails ==
    { <<>>,
      <<" ", "W", "=", "1", "u">>,
      <<" ", "W", " ", "=", " ", "1", "u">>,
      <<" ", "W", " ", "=", "1", "u">>,
      <<" ", "W", "=", "1", "u", " ", "L", " ", "=", " ", "2">> }

Statements == { h \o t : h \in StatementHeads, t \in ParamTails }

VARIABLES
    logical_line,    \* the logical line the loop of ChunkParser.parse is at
    chunk            \* ChunkParser.parse(): pc, the loop state, and what the
                     \* line parser returned for the line

lineVars == <<logical_line, chunk>>

\* The state ChunkParser.parse starts its loop in.
ChunkStart ==
    [cells |-> <<>>, includes |-> <<>>, has_macro |-> FALSE, macro |-> Subckt(None, <<>>, 0)]

\* The loop state after the header ".subckt inv a y" of a MACRO region.
ChunkInMacro ==
    [ChunkStart EXCEPT !.has_macro = TRUE,
                       !.macro = Subckt(<<"i", "n", "v">>, << <<"a">>, <<"y">> >>, 0)]

\* ChunkParser.parse before a turn of its loop.
ChunkReady(state) ==
    [pc |-> "ready", state |-> state,
     declaration |-> [ok |-> FALSE, cell |-> Model(None, None, <<>>)],
     include |-> [ok |-> FALSE, directive |-> IncludeDirective(None, TRUE)],
     instance |-> [ok |-> FALSE, instance |-> Instance(<<>>, <<>>, <<>>, NoDef, None)]]

LineInit ==
    /\ logical_line \in Statements
    /\ chunk \in { ChunkReady(state) : state \in {ChunkStart, ChunkInMacro} }

LineIdle == [logical_line |-> <<>>, chunk |-> ChunkReady(ChunkStart)]

\* One turn of the loop of ChunkParser.parse: parse_declaration,
\* parse_include and parse_instance on the line, and the loop state after it.
ParseLine ==
    /\ chunk.pc = "ready"
    /\ LET decl == parse_declaration(logical_line, 0)
           incl == parse_include(logical_line)
           inst == parse_instance(logical_line)
       IN chunk' = [pc |-> "parsed",
                    state |-> ChunkTurn(chunk.state, logical_line, decl, incl, inst),
                    declaration |-> decl, include |-> incl, instance |-> inst]
    /\ UNCHANGED logical_line

(***************************************************************************)
(* Specifications                                                          *)
(***************************************************************************)

vars == <<scanVars, compVars, pipeVars, libVars, lineVars, graphVars>>

\* The scanner on one file.
ScanNext ==
    \/ ScanBegin /\ UNCHANGED <<compVars, pipeVars, libVars, lineVars, graphVars>>
    \/ ScanLine /\ UNCHANGED <<compVars, pipeVars, libVars, lineVars, graphVars>>
    \/ ScanFinish /\ UNCHANGED <<compVars, pipeVars, libVars, lineVars, graphVars>>

InitScan ==
    /\ ScanInit
    /\ fs = CompIdle.fs
    /\ visited_regions = CompIdle.visited_regions
    /\ queue = CompIdle.queue
    /\ aggregated_result = CompIdle.aggregated_result
    /\ comp = CompIdle.comp
    /\ include_resolver = CompIdle.include_resolver
    /\ netlist_file = PipeIdle.netlist_file
    /\ parser = PipeIdle.parser
    /\ model_registry = PipeIdle.model_registry
    /\ linker = PipeIdle.linker
    /\ lib_file = LibIdle.lib_file
    /\ lib_directive = LibIdle.lib_directive
    /\ library_processor = LibIdle.library_processor
    /\ library_registry = LibIdle.library_registry
    /\ resolved = LibIdle.resolved
    /\ logical_line = LineIdle.logical_line
    /\ chunk = LineIdle.chunk
    /\ circuit_graph = GraphIdle

SpecScan == InitScan /\ [][ScanNext]_vars

\* The compiler and the include resolver on one file system.
CompNext ==
    \/ CompileSeed /\ UNCHANGED <<scanVars, pipeVars, libVars, lineVars, graphVars>>
    \/ CompileStep /\ UNCHANGED <<scanVars, pipeVars, libVars, lineVars, graphVars>>
    \/ CompileReturn /\ UNCHANGED <<scanVars, pipeVars, libVars, lineVars, graphVars>>
    \/ ResolveIncludes /\ UNCHANGED <<scanVars, pipeVars, libVars, lineVars, graphVars>>

InitCompile ==
    /\ CompInit
    /\ mm = ScanIdle.mm
    /\ context = ScanIdle.context
    /\ scan = ScanIdle.scan
    /\ netlist_file = PipeIdle.netlist_file
    /\ parser = PipeIdle.parser
    /\ model_registry = PipeIdle.model_registry
    /\ linker = PipeIdle.linker
    /\ lib_file = LibIdle.lib_file
    /\ lib_directive = LibIdle.lib_directive
    /\ library_processor = LibIdle.library_processor
    /\ library_registry = LibIdle.library_registry
    /\ resolved = LibIdle.resolved
    /\ logical_line = LineIdle.logical_line
    /\ chunk = LineIdle.chunk
    /\ circuit_graph = GraphIdle

SpecCompile == InitCompile /\ [][CompNext]_vars

\* compile() runs on one thread and is never suspended for ever: each of its
\* steps is taken when it can be.
SpecCompileFair == SpecCompile /\ WF_vars(Compile /\ UNCHANGED <<scanVars, pipeVars, libVars, lineVars, graphVars>>)

\* Parser.parse() on one file, then link() on its result.
PipeNext ==
    \/ ParseBegin /\ UNCHANGED <<scanVars, compVars, libVars, lineVars, graphVars>>
    \/ (\E i \in parser.pending : WorkerDone(i)) /\ UNCHANGED <<scanVars, compVars, libVars, lineVars, graphVars>>
    \/ (\E i \in parser.pending : WorkerFails(i)) /\ UNCHANGED <<scanVars, compVars, libVars, lineVars, graphVars>>
    \/ ParseReturn /\ UNCHANGED <<scanVars, compVars, libVars, lineVars, graphVars>>
    \/ Link /\ UNCHANGED <<scanVars, compVars, libVars, lineVars, graphVars>>
    \/ FromMacro /\ UNCHANGED <<scanVars, compVars, libVars, lineVars>>

InitPipe ==
    /\ PipeInit
    /\ mm = ScanIdle.mm
    /\ context = ScanIdle.context
    /\ scan = ScanIdle.scan
    /\ fs = CompIdle.fs
    /\ visited_regions = CompIdle.visited_regions
    /\ queue = CompIdle.queue
    /\ aggregated_result = CompIdle.aggregated_result
    /\ comp = CompIdle.comp
    /\ include_resolver = CompIdle.include_resolver
    /\ lib_file = LibIdle.lib_file
    /\ lib_directive = LibIdle.lib_directive
    /\ library_processor = LibIdle.library_processor
    /\ library_registry = LibIdle.library_registry
    /\ resolved = LibIdle.resolved
    /\ logical_line = LineIdle.logical_line
    /\ chunk = LineIdle.chunk
    /\ circuit_graph = CircuitGraph(Subckt(None, <<>>, 0))

SpecPipe == InitPipe /\ [][PipeNext]_vars

\* One library section extracted and registered, then names resolved.
LibNext ==
    \/ ExtractSection /\ UNCHANGED <<scanVars, compVars, pipeVars, lineVars, graphVars>>
    \/ RegisterLibraryContent /\ UNCHANGED <<scanVars, compVars, pipeVars, lineVars, graphVars>>
    \/ (\E model_name \in ModelNames : ResolveModel(model_name))
          /\ UNCHANGED <<scanVars, compVars, pipeVars, lineVars, graphVars>>

InitLibrary ==
    /\ LibInit
    /\ mm = ScanIdle.mm
    /\ context = ScanIdle.context
    /\ scan = ScanIdle.scan
    /\ fs = CompIdle.fs
    /\ visited_regions = CompIdle.visited_regions
    /\ queue = CompIdle.queue
    /\ aggregated_result = CompIdle.aggregated_result
    /\ comp = CompIdle.comp
    /\ include_resolver = CompIdle.include_resolver
    /\ netlist_file = PipeIdle.netlist_file
    /\ parser = PipeIdle.parser
    /\ model_registry = PipeIdle.model_registry
    /\ linker = PipeIdle.linker
    /\ logical_line = LineIdle.logical_line
    /\ chunk = LineIdle.chunk
    /\ circuit_graph = GraphIdle

SpecLibrary == InitLibrary /\ [][LibNext]_vars

\* The line parser on one logical line of a region.
LineNext ==
    \/ ParseLine /\ UNCHANGED <<scanVars, compVars, pipeVars, libVars, graphVars>>

InitLine ==
    /\ LineInit
    /\ mm = ScanIdle.mm
    /\ context = ScanIdle.context
    /\ scan = ScanIdle.scan
    /\ fs = CompIdle.fs
    /\ visited_regions = CompIdle.visited_regions
    /\ queue = CompIdle.queue
    /\ aggregated_result = CompIdle.aggregated_result
    /\ comp = CompIdle.comp
    /\ include_resolver = CompIdle.include_resolver
    /\ netlist_file = PipeIdle.netlist_file
    /\ parser = PipeIdle.parser
    /\ model_registry = PipeIdle.model_registry
    /\ linker = PipeIdle.linker
    /\ lib_file = LibIdle.lib_file
    /\ lib_directive = LibIdle.lib_directive
    /\ library_processor = LibIdle.library_processor
    /\ library_registry = LibIdle.library_registry
    /\ resolved = LibIdle.resolved
    /\ circuit_graph = GraphIdle

SpecLine == InitLine /\ [][LineNext]_vars

(***************************************************************************)
(* Properties of the scanner                                               *)
(***************************************************************************)

IncludeEdges ==
    { e \in Files \X Files :
        /\ ~fs[e[1]].empty
        /\ \E d \in fs[e[1]].includes :
             /\ ~(d.is_lib /\ d.section # None)
             /\ LET r == ResolvePath(d.filepath, Parent(Path(e[1].dir, e[1].name, FALSE)))
                IN r.found /\ FileOf(r.path) = e[2] }

RECURSIVE ReachFrom(_)
\* The files reachable from the files S in zero or more include steps.
ReachFrom(S) ==
    LET T == S \cup { e[2] : e \in { x \in IncludeEdges : x[1] \in S } }
    IN IF T = S THEN S ELSE ReachFrom(T)

\* A file reachable from the root includes itself, directly or not.
HasIncludeCycle ==
    \E f \in ReachFrom({RootFile}) :
        f \in ReachFrom({ e[2] : e \in { x \in IncludeEdges : x[1] = f } })

\* No region key is parsed or queued twice.
NoKeyTwice ==
    LET keys == comp.parsed \o [i \in 1..Len(queue) |-> RegionKey(queue[i])]
    IN \A i, j \in 1..Len(keys) : i # j => keys[i] # keys[j]

\* C5: compile() terminates on every file system, include cycles included:
\* the queue drains because no region key is ever enqueued a second time.
C5_CompileTerminates ==
    /\ <>(comp.pc \in {"done", "raised"})
    /\ [](NoKeyTwice /\ (comp.pc = "done" => queue = <<>>))

\* compile() returned on a file system where the root and the other file
\* include each other, having parsed both.
C5_Witness ==
    /\ comp.pc = "done"
    /\ <<RootFile, OtherFile>> \in IncludeEdges
    /\ <<OtherFile, RootFile>> \in IncludeEdges
    /\ Len(comp.parsed) >= 2

\* C6: when the include graph reachable from the root has a cycle, the
\* pipeline reports it: compile() with a CIRCULAR_DEPENDENCY error, or
\* resolve_includes with ValueError "Circular include dependency".
C6_IncludeCycleReported ==
    (/\ HasIncludeCycle
     /\ comp.pc = "done"
     /\ include_resolver # "new")
    => \/ \E i \in 1..Len(aggregated_result.errors) :
              aggregated_result.errors[i] = "CIRCULAR_DEPENDENCY"
       \/ include_resolver = "ValueError: Circular include dependency"

(***************************************************************************)
(* Properties of the parser and the linker                                 *)
(***************************************************************************)

\* The Macro cells parse() collected.
ParsedMacros ==
    { parser.all_cells[i] : i \in { k \in 1..Len(parser.all_cells) :
                                      parser.all_cells[k].type = "Macro" } }

\* The names in netlist.macros, in order.
NetlistMacroNames ==
    [i \in 1..Len(linker.result.netlist.macros) |-> linker.result.netlist.macros[i].name]

\* The errors of the LinkResult of one kind.
ErrorsOfKind(kind) ==
    { i \in 1..Len(linker.result.errors) : linker.result.errors[i].error_type = kind }

\* C1: after link() returns, every instance it walked has a definition or
\* is named in the affected_cells of an UNDEFINED_MODEL error.
C1_ResolvedOrReported ==
    linker.pc = "returned" =>
        \A k \in 1..Len(linker.instances) :
            \/ linker.instances[k].definition.kind # "None"
            \/ \E e \in ErrorsOfKind(UNDEFINED_MODEL) :
                  \E n \in 1..Len(linker.result.errors[e].affected_cells) :
                      linker.result.errors[e].affected_cells[n] = linker.instances[k].name

\* The edges a -> b between the macros ms: a holds an instance whose
\* definition is the macro b.
DependencyEdges(ms) ==
    { e \in { <<ms[i].name, ms[j].name>> : i, j \in 1..Len(ms) } :
        \E i \in 1..Len(ms) :
            /\ ms[i].name = e[1]
            /\ \E k \in 1..Len(ms[i].children) :
                  /\ ms[i].children[k].type = "Instance"
                  /\ ms[i].children[k].definition.kind = "Macro"
                  /\ ms[i].children[k].definition.name = e[2] }

RECURSIVE Reach(_, _)
\* The nodes reachable from the nodes S along one or more of the edges.
Reach(edges, S) ==
    LET T == S \cup { e[2] : e \in { x \in edges : x[1] \in S } }
    IN IF T = S THEN S ELSE Reach(edges, T)

\* Some node reaches itself along the edges.
Cyclic(edges) ==
    \E e \in edges : e[1] \in Reach(edges, {e[2]})

\* C2: when link() returned and the dependencies between the macros of the
\* netlist have no cycle, a macro that holds an instance of another comes
\* before it in netlist.macros, and every name a parsed macro has is the
\* name of exactly one macro of netlist.macros.
C2_TopologicalOrder ==
    (linker.pc = "returned" /\ ~Cyclic(DependencyEdges(linker.result.netlist.macros))) =>
        LET ms == linker.result.netlist.macros
        IN /\ \A i, j \in 1..Len(ms) :
                 <<ms[i].name, ms[j].name>> \in DependencyEdges(ms) => i < j
           /\ \A m \in ParsedMacros :
                 Cardinality({ i \in 1..Len(ms) : ms[i].name = m.name }) = 1

\* link() returned a netlist of two macros or more, one of which holds an
\* instance of another that was collected before it.
C2_Witness ==
    /\ linker.pc = "returned"
    /\ Len(linker.result.netlist.macros) >= 2
    /\ DependencyEdges(linker.result.netlist.macros) # {}
    /\ NetlistMacroNames # DictKeys(linker.macro_by_name)

\* The edges of the DiGraph link() built.
GraphEdges ==
    { e \in { <<linker.graph[i][1], linker.graph[j][1]>> : i, j \in 1..Len(linker.graph) } :
        \E k \in 1..Len(DictGet(linker.graph, e[1])) : DictGet(linker.graph, e[1])[k] = e[2] }

\* C3: when the macro dependency graph has a cycle, link() returns, with
\* one CIRCULAR_DEPENDENCY error whose affected_cells are macros on a cycle
\* and a netlist that has every parsed macro.
C3_CycleReported ==
    (linker.pc \in {"returned", "raised"} /\ Cyclic(GraphEdges)) =>
        /\ linker.pc = "returned"
        /\ Cardinality(ErrorsOfKind(CIRCULAR_DEPENDENCY)) = 1
        /\ \A e \in ErrorsOfKind(CIRCULAR_DEPENDENCY) :
              \A n \in 1..Len(linker.result.errors[e].affected_cells) :
                  LET a == linker.result.errors[e].affected_cells[n]
                  IN a \in Reach(GraphEdges, {a})
        /\ \A m \in ParsedMacros :
              \E i \in 1..Len(NetlistMacroNames) : NetlistMacroNames[i] = m.name

\* C4: when a macro name is defined more than once, the netlist keeps the
\* definition that comes first in the file, whatever order the workers
\* finished in, and link() records one DUPLICATE_DEFINITION error with
\* affected_cells [name] for each further definition.
C4_FirstDefinitionKept ==
    linker.pc = "returned" =>
        \A m \in ParsedMacros :
            LET same == { d \in ParsedMacros : d.name = m.name }
            IN Cardinality(same) > 1 =>
                 /\ \A i \in 1..Len(linker.result.netlist.macros) :
                       linker.result.netlist.macros[i].name = m.name =>
                          \A d \in same : linker.result.netlist.macros[i].origin <= d.origin
                 /\ Cardinality({ e \in ErrorsOfKind(DUPLICATE_DEFINITION) :
                                    linker.result.errors[e].affected_cells = <<m.name>> })
                       = Cardinality(same) - 1

\* C8: link() never raises: it returns a LinkResult for every parse result.
C8_LinkNeverRaises == linker.pc # "raised"

RECURSIVE SourceOrderCells(_, _)
\* The cells parse() collects when the workers finish in the order of their
\* regions, from region i on.
SourceOrderCells(regions, i) ==
    IF i > Len(regions) THEN <<>>
    ELSE ChunkParse(netlist_file, regions[i]).cells \o SourceOrderCells(regions, i + 1)

\* The macro names a run of link() returned, in order; <<>> when it raised.
RunMacroNames(run) ==
    [i \in 1..Len(run.result.netlist.macros) |-> run.result.netlist.macros[i].name]

\* C9: whatever order the workers finished in, the run gives the macro
\* names, in the order, that the run gives in which the workers finish in
\* the order of their regions.
C9_SameOrderEveryRun ==
    linker.pc \in {"returned", "raised"} =>
        /\ NetlistMacroNames = RunMacroNames(link(SourceOrderCells(parser.work_items, 1), ModelRegistry))
        /\ linker.pc = link(SourceOrderCells(parser.work_items, 1), ModelRegistry).pc

\* C10: a worker failure is confined to its work item: parse() does not
\* raise, and what it returns holds the results of the other regions.
C10_WorkerFailureConfined ==
    parser.failed # {} =>
        /\ parser.pc \in {"running", "returned"}
        /\ parser.pc = "returned" => parser.pending \subseteq parser.failed

\* The ports of the definition an instance of the returned netlist holds.
PortsOf(definition) == DefinitionPorts(linker.result.netlist.macros, definition)

\* The errors of the LinkResult whose type is none of the members link()
\* uses for names, duplicates and cycles, and that name the instance.
ParityErrors(instance) ==
    { e \in 1..Len(linker.result.errors) :
        /\ linker.result.errors[e].error_type \notin
              {UNNAMED_CELL, DUPLICATE_DEFINITION, UNDEFINED_MODEL, CIRCULAR_DEPENDENCY}
        /\ \E n \in 1..Len(linker.result.errors[e].affected_cells) :
              linker.result.errors[e].affected_cells[n] = instance.name }

\* C11: after link() returns, every instance that has a definition with k
\* ports has exactly k entries in its nets mapping, or the link errors hold
\* a parity error for that instance.
C11_NetsMatchPorts ==
    linker.pc = "returned" =>
        \A k \in 1..Len(linker.instances) :
            linker.instances[k].definition.kind # "None" =>
                \/ Len(linker.instances[k].nets) = Len(PortsOf(linker.instances[k].definition))
                \/ ParityErrors(linker.instances[k]) # {}

\* The lines of the file that ChunkParser.parse reads as instances: the
\* logical lines of the regions that are neither declarations nor includes.
InstanceLines ==
    UNION { { ls[n] : n \in { m \in 1..Len(ls) :
                                /\ ls[m] # <<>>
                                /\ ~parse_declaration(ls[m], 0).ok
                                /\ ~parse_include(ls[m]).ok
                                /\ parse_instance(ls[m]).ok } } :
            ls \in { LogicalLines(netlist_file, parser.work_items[i]) :
                       i \in 1..Len(parser.work_items) } }

\* The instance was read from the line: it has the name, the params and the
\* definition name of the line, and nets of the line.
ReadFrom(instance, line) ==
    LET t == InstanceTokens(line)
    IN /\ instance.name = t.name
       /\ instance.params = t.params
       /\ instance.definition_name = parse_instance(line).instance.definition_name
       /\ \A k \in 1..Len(instance.nets) :
             \E i \in 1..Len(t.nets) : t.nets[i] = instance.nets[k].net

\* The net written at position i of the line is mapped to port i of the
\* definition, for every position that has both a net and a port.
MappedInOrder(instance, line) ==
    LET written == InstanceTokens(line).nets
        ports   == PortsOf(instance.definition)
    IN \A i \in 1..Len(written) :
          i <= Len(ports) =>
             \E k \in 1..Len(instance.nets) :
                 instance.nets[k] = [net |-> written[i], port |-> ports[i]]

\* C12: after link() returns, for every instance with a definition the net
\* written at each position of its line is mapped to the port of the
\* definition at that position, also when a net name is written at more
\* than one position.
C12_NetsMappedInOrder ==
    linker.pc = "returned" =>
        \A k \in 1..Len(linker.instances) :
            linker.instances[k].definition.kind # "None" =>
                \A line \in InstanceLines :
                    ReadFrom(linker.instances[k], line) =>
                        MappedInOrder(linker.instances[k], line)

\* The root file is a wrapper of the other file: its only content is one
\* directive, which names the whole of the other file.
RootWrapsOther ==
    /\ ~fs[RootFile].empty
    /\ Cardinality(fs[RootFile].includes) = 1
    /\ \A d \in fs[RootFile].includes :
          /\ d.section = None
          /\ ResolvePath(d.filepath, Parent(Root)).found
          /\ FileOf(ResolvePath(d.filepath, Parent(Root)).path) = OtherFile

\* The files whose macros a compile() collected in cells; a file that is
\* parsed holds the same macros whatever path it was reached by, and the
\* wrapper holds none.
MacroFiles(cells) == { FileOf(cells[i]) : i \in 1..Len(cells) } \ {RootFile}

\* C13: compiling a wrapper whose only content is an include of a file F
\* collects the macros that compiling F itself collects.
C13_WrapperSameMacros ==
    (RootWrapsOther /\ comp.pc = "done") =>
        \A direct \in CompileOf(Path(OtherFile.dir, OtherFile.name, FALSE)) :
            /\ direct.raised = ""
            /\ MacroFiles(direct.cells) = MacroFiles(aggregated_result.cells)

(***************************************************************************)
(* Properties of the library flow                                          *)
(***************************************************************************)

\* C14: two calls of resolve_model with names that are equal up to letter
\* case return the identical object, or None both times, whatever calls
\* were made between them.
C14_SameObjectEachCall ==
    \A i \in 1..Len(resolved.calls) : \A j \in 1..Len(resolved.calls) :
        Lower(resolved.calls[i].name) = Lower(resolved.calls[j].name)
            => resolved.calls[i].model = resolved.calls[j].model

\* The resolver made a Subckt for inv out of the library, nch was resolved
\* next, and INV was resolved after that.
C14_Witness ==
    /\ library_registry.static_macros = <<>>
    /\ Len(resolved.calls) = 3
    /\ resolved.calls[1].name = <<"i", "n", "v">>
    /\ resolved.calls[1].model.kind = "Macro"
    /\ resolved.calls[2].name = <<"n", "c", "h">>
    /\ resolved.calls[2].model.kind = "Primitive"
    /\ resolved.calls[3].name = <<"I", "N", "V">>
    /\ resolved.calls[3].model.kind = "Macro"

\* The line is a .lib header that names section_name, letter case aside.
IsHeaderOf(line, section_name) ==
    /\ Len(Split(line)) >= 2
    /\ Lower(Split(line)[1]) = <<".", "l", "i", "b">>
    /\ Lower(Split(line)[2]) = Lower(section_name)

\* The line is an .endl line.
IsEndl(line) == Split(line) # <<>> /\ Lower(Split(line)[1]) = <<".", "e", "n", "d", "l">>

\* The offset in the library file of the first byte of its line i (of the
\* end of the file for the line after the last).
OffsetOfLine(i) == Len(Flatten(SubSeq(lib_file, 1, i - 1)))

\* C17: the section extracted starts at the first byte after the header
\* line of the first .lib marker that names the requested section (letter
\* case aside), and ends at the start of the next .endl line after it, or
\* at the end of the file when there is none; with no such marker there is
\* no section.
C17_SectionOffsets ==
    (library_processor.pc # "new" /\ lib_directive.section # None) =>
        LET headers == { i \in 1..Len(lib_file) : IsHeaderOf(lib_file[i], lib_directive.section) }
            h       == CHOOSE i \in headers : \A k \in headers : i <= k
            ends    == { j \in 1..Len(lib_file) : j > h /\ IsEndl(lib_file[j]) }
        IN IF headers = {} THEN ~library_processor.section.found
           ELSE /\ library_processor.section.found
                /\ library_processor.section.start_byte = OffsetOfLine(h + 1)
                /\ library_processor.section.end_byte =
                       IF ends = {} THEN Len(Flatten(lib_file))
                       ELSE OffsetOfLine(CHOOSE j \in ends : \A k \in ends : j <= k)

\* The directives of the file a turn of compile() parses, told apart by
\* whether _resolve_path finds their file from the file context_filepath.
Resolvable(directive, context_filepath) ==
    ResolvePath(directive.filepath, Parent(context_filepath)).found

\* The position in order of the first directive whose handling raises (a
\* resolved .lib with a section), Len(order) + 1 when none does.
FirstRaising(order, context_filepath) ==
    LET raising == { i \in 1..Len(order) : /\ Resolvable(order[i], context_filepath)
                                           /\ order[i].is_lib
                                           /\ order[i].section # None }
    IN IF raising = {} THEN Len(order) + 1
       ELSE CHOOSE i \in raising : \A k \in raising : i <= k

\* C15: a directive whose path cannot be resolved enqueues nothing and
\* leaves the queue and the visited set as they are (a turn of compile()
\* ends with the queue and the visited set it would have without those
\* directives); a strict one (.include, .lib, [! ]) records a warning, a
\* lenient one ([? ]) records nothing, and compile() goes on with the queue.
C15_UnresolvedSkipped ==
    [][ (comp.pc = "loop" /\ comp'.parsed # comp.parsed
           /\ ~fs[FileOf(Head(queue).filepath)].empty) =>
          /\ parse_include(<<".", "i", "n", "c", "l", "u", "d", "e", " ", "z">>).directive.strict
          /\ parse_include(<<".", "l", "i", "b", " ", "z", " ", "t", "t">>).directive.strict
          /\ parse_include(<<"[", "!", " ", "z", "]">>).directive.strict
          /\ ~parse_include(<<"[", "?", " ", "z", "]">>).directive.strict
          /\ \E order \in Orders(fs[FileOf(Head(queue).filepath)].includes) :
                LET ctx       == Head(queue).filepath
                    found(d)  == Resolvable(d, ctx)
                    warns(d)  == ~Resolvable(d, ctx) /\ d.strict
                    warned    == SelectSeq(SubSeq(order, 1, FirstRaising(order, ctx) - 1), warns)
                    after     == CompileTurn(CompilerState, fs[FileOf(ctx)],
                                             SelectSeq(order, found))
                IN /\ queue' = after.queue
                   /\ visited_regions' = after.visited
                   /\ comp'.warnings = comp.warnings \o [i \in 1..Len(warned) |-> warned[i].filepath]
                   /\ after.raised = "" => comp'.pc = "loop"
      ]_vars

\* compile() returned for a root with one strict and one lenient directive
\* that resolve to nothing: one warning, for the strict one.
C15_Witness ==
    /\ comp.pc = "done"
    /\ fs[RootFile].includes = { Directive(FALSE, Written("", "b", FALSE), TRUE, None),
                                 Directive(FALSE, Written("", "z", FALSE), FALSE, None) }
    /\ comp.warnings = << Written("", "b", FALSE) >>
    /\ Len(comp.parsed) = 1

\* The root is written with one directive, a .lib that names the section tt
\* of the file s/b, and neither file is empty.
RootNamesSection ==
    /\ fs[RootFile] = [empty |-> FALSE,
                       includes |-> { Directive(TRUE, Written("s", "b", FALSE), TRUE, <<"t", "t">>) }]
    /\ ~fs[OtherFile].empty

\* C16: when the root references one named section of a library file,
\* compile() completes, the models of that section reach the link (an
\* instance that names a `.model <name> nmos` of the section resolves to the
\* NMOS primitive), and nothing of the library outside that section is
\* parsed: the only region of the library file that is parsed is the byte
\* range of the section.
C16_SectionOnly ==
    (RootNamesSection /\ comp.pc \notin {"new", "loop"}) =>
        /\ comp.pc = "done"
        /\ comp.raised = ""
        /\ \E i \in 1..Len(comp.parsed) : FileOf(comp.parsed[i][1]) = OtherFile
        /\ \A i \in 1..Len(comp.parsed) :
              FileOf(comp.parsed[i][1]) = OtherFile => comp.parsed[i][3] # -1

\* The physical lines of a region without its title line: in a region that
\* starts at byte 0, the first line that is no comment is left out unless
\* it begins with "."; no line is left out of any other region.
WithoutTitle(lines, start_byte) ==
    LET code == { i \in 1..Len(lines) : ~IsComment(lines[i]) }
        t    == CHOOSE i \in code : \A k \in code : i <= k
    IN IF start_byte = 0 /\ code # {} /\ lines[t][1] # "."
       THEN SubSeq(lines, 1, t - 1) \o SubSeq(lines, t + 1, Len(lines))
       ELSE lines

\* The cells ChunkParser.parse makes of the logical lines folded from lines.
CellsOfLines(lines, origin) ==
    ChunkResult(ChunkLoop(FoldLines(lines, <<>>),
                          [cells |-> <<>>, includes |-> <<>>, has_macro |-> FALSE,
                           macro |-> Subckt(None, <<>>, 0)],
                          origin)).cells

\* The elements of a sequence.
Range(seq) == { seq[i] : i \in 1..Len(seq) }

\* C18: in a region with start_byte = 0 the first physical line that is no
\* comment is discarded as the title unless it begins with ".", also when
\* comment lines precede it; in a region with start_byte > 0 no line is
\* discarded: the cells parse() returns are the cells of the lines of each
\* region without that title line.
C18_TitleDiscarded ==
    parser.pc = "returned" =>
        Range(parser.all_cells) =
            UNION { Range(CellsOfLines(WithoutTitle(PhysicalLines(netlist_file,
                                                                  parser.work_items[j].start_byte,
                                                                  parser.work_items[j].end_byte),
                                                    parser.work_items[j].start_byte),
                                       parser.work_items[j].start_byte)) :
                    j \in 1..Len(parser.work_items) }

\* The logical lines of the regions of the file outside any macro.
GlobalLines ==
    UNION { Range(LogicalLines(netlist_file, parser.work_items[i])) :
            i \in { k \in 1..Len(parser.work_items) : parser.work_items[k].region_type = GLOBAL } }

\* The tokens are those of a passive instance with a value token at
\* position p: the name has the prefix of a passive class, the tokens
\* between the name and p are neither values nor key=value, the token at p
\* looks like a number, and key=value tokens, and only those, follow it.
ValueThenParams(tokens, p) ==
    /\ get_definition_from_prefix(tokens[1][1]) \in passive_registry
    /\ p \in 2..(Len(tokens) - 1)
    /\ IsValue(tokens[p]) /\ ~Contains(tokens[p], "=")
    /\ \A q \in 2..(p - 1) : ~IsValue(tokens[q]) /\ ~Contains(tokens[q], "=")
    /\ \A q \in (p + 1)..Len(tokens) : Contains(tokens[q], "=")

\* C19: for a passive instance whose logical line has a value token followed
\* by key=value tokens, the parser emits an instance whose nets are the
\* tokens before the value, with the param value equal to that token and
\* each key=value stored as a param.
C19_ValueBeforeParams ==
    parser.pc = "returned" =>
        \A line \in GlobalLines \ {<<>>} :
            \A p \in 1..Len(Split(line)) :
                ValueThenParams(Split(line), p) =>
                    \E i \in 1..Len(parser.all_cells) :
                        /\ parser.all_cells[i].type = "Instance"
                        /\ parser.all_cells[i].name = Split(line)[1]
                        /\ [k \in 1..Len(parser.all_cells[i].nets) |-> parser.all_cells[i].nets[k].net]
                               = SubSeq(Split(line), 2, p - 1)
                        /\ Range(parser.all_cells[i].params) =
                               { <<<<"v", "a", "l", "u", "e">>, Split(line)[p]>> }
                               \cup { <<SplitEq(Split(line)[q])[1], SplitEq(Split(line)[q])[2]>> :
                                      q \in (p + 1)..Len(Split(line)) }

\* C20: the pipeline on an empty (zero-byte) file completes: parse() does
\* not raise and returns no cell and no error, and link() returns a netlist
\* with no macros, no primitives and no top-level instances and no errors.
C20_EmptyFileEmptyNetlist ==
    (netlist_file = <<>> /\ parser.pc # "ready") =>
        /\ parser.pc \in {"running", "returned"}
        /\ parser.all_cells = <<>>
        /\ parser.all_errors = <<>>
        /\ linker.pc # "raised"
        /\ linker.pc = "returned" =>
              /\ linker.result.netlist.macros = <<>>
              /\ linker.result.netlist.primitives = {}
              /\ linker.result.netlist.top_instances = <<>>
              /\ linker.result.errors = <<>>

(***************************************************************************)
(* Properties of lines, regions and resolution                             *)
(***************************************************************************)

\* The physical line scan() reads next.
LineRead == Slice(mm, scan.start_pos + 1, LineEnd(mm, scan.start_pos + 1))

\* ChunkParser.parse makes nothing of the line: no declaration, no
\* directive, no instance, and its loop state stays as it is.
YieldsNothing(line) ==
    /\ ~parse_declaration(line, 0).ok
    /\ ~parse_include(line).ok
    /\ ~parse_instance(line).ok
    /\ ChunkTurn(ChunkStart, line, parse_declaration(line, 0), parse_include(line),
                 parse_instance(line)) = ChunkStart

\* C21: a macro-end line (.ends) read while the scanner is in the global
\* state changes no scanner state and creates no MACRO region, and the chunk
\* parser makes no cell and no directive of that line.
C21_StrayEndsIgnored ==
    [][ (scan.pc = "scanning" /\ scan'.start_pos # scan.start_pos
           /\ ~context.in_macro /\ matches_macro_end(LineRead)) =>
          /\ context' = context
          /\ YieldsNothing(Strip(LineRead))
      ]_vars

\* The file begins with an .ends line, which was read in the global state
\* of a new Scanner.
C21_Witness ==
    /\ Len(mm) >= 6
    /\ SubSeq(mm, 1, 6) = <<".", "e", "n", "d", "s", "\n">>
    /\ scan.pc = "scanning"
    /\ scan.calls = 1
    /\ scan.start_pos = 6
    /\ context = ScanContext

\* The physical lines the loop of the logical-line iterator works on: those
\* of the region, less a first line taken as the title; none when the first
\* line of a region at byte 0 is blank.
LoopLines(lines, start_byte) ==
    IF start_byte # 0 THEN lines
    ELSE IF lines = <<>> \/ Head(lines) = <<>> THEN <<>>
    ELSE IF IsComment(Head(lines)) \/ Head(lines)[1] = "." THEN lines
    ELSE Tail(lines)

NotComment(line) == ~IsComment(line)

\* What a line brings to its logical line: a continuation line its text
\* after the "+", any other line itself.
Content(line) == IF IsContinuation(line) THEN Strip(Tail(line)) ELSE line

RECURSIVE GroupFrom(_, _)
\* The logical lines of the lines nc, none of them a comment, from line i
\* on: line i begins a logical line, which takes the continuation lines
\* that follow it.
GroupFrom(nc, i) ==
    IF i > Len(nc) THEN <<>>
    ELSE LET later == { k \in (i + 1)..Len(nc) : ~IsContinuation(nc[k]) }
             n     == IF later = {} THEN Len(nc) + 1
                      ELSE CHOOSE k \in later : \A m \in later : k <= m
         IN <<Join([k \in 1..(n - i) |-> Content(nc[i + k - 1])])>> \o GroupFrom(nc, n)

C23_EqualsSpacingSame ==
    chunk.pc = "parsed" =>
        /\ chunk.declaration = parse_declaration(EqualsNorm(logical_line), 0)
        /\ chunk.instance = parse_instance(EqualsNorm(logical_line))

\* The tokens of the line once its parameters are written key=value.
LineTokens == Split(EqualsNorm(logical_line))

\* The line is "M<name> d g s b <model> [params]".
IsMosfetLine ==
    /\ Len(LineTokens) >= 6
    /\ UpperChar(LineTokens[1][1]) = "M"
    /\ \A i \in 1..Len(LineTokens) : Contains(LineTokens[i], "=") <=> i > 6

\* C24: an M line read inside a macro becomes a child whose definition_name
\* is the model token and whose nets are the four tokens d, g, s, b in the
\* order written.
C24_MosfetKeepsModelName ==
    (chunk.pc = "parsed" /\ chunk.state.has_macro /\ IsMosfetLine) =>
        /\ Len(chunk.state.macro.children) = 1
        /\ chunk.state.macro.children[1].definition_name = LineTokens[6]
        /\ [i \in 1..Len(chunk.state.macro.children[1].nets) |->
               chunk.state.macro.children[1].nets[i].net] = SubSeq(LineTokens, 2, 5)

\* The line is a bare ".lib <section>" or ".endl [<section>]".
IsSectionMarker ==
    LET tokens == Split(logical_line)
    IN \/ Len(tokens) = 2 /\ tokens[1] = <<".", "l", "i", "b">>
       \/ Len(tokens) \in {1, 2} /\ tokens[1] = <<".", "e", "n", "d", "l">>

\* C27: a bare section marker gives no include or library directive.
C27_MarkerNoDirective ==
    (chunk.pc = "parsed" /\ IsSectionMarker) =>
        /\ ~chunk.include.ok
        /\ chunk.state.includes = <<>>

\* The primitive each device letter stands for.
PrefixTable ==
    [R |-> "resistor", C |-> "capacitor", L |-> "inductor", M |-> "mosfet", D |-> "diode"]

\* The tokens of the line after the name that hold no "=".
Positional == SelectSeq(Tail(LineTokens), LAMBDA t : ~Contains(t, "="))

\* C28: the upper-cased first character of the name selects the class: R,
\* C, L, M, D give an instance with that primitive as definition, X gives an
\* instance with no definition and the last positional token as
\* definition_name, any other character gives no instance.
C28_PrefixSelectsClass ==
    (chunk.pc = "parsed" /\ Len(LineTokens) >= 2) =>
        LET c == UpperChar(LineTokens[1][1])
        IN IF c \in DOMAIN PrefixTable
           THEN /\ chunk.instance.ok
                /\ chunk.instance.instance.definition = PrimitiveDef(PrefixTable[c])
           ELSE IF c = "X"
           THEN /\ chunk.instance.ok
                /\ chunk.instance.instance.definition = NoDef
                /\ chunk.instance.instance.definition_name =
                       IF Positional = <<>> THEN None ELSE Positional[Len(Positional)]
           ELSE ~chunk.instance.ok

(***************************************************************************)
(* Properties of path resolution and of the visited set                    *)
(***************************************************************************)

\* The candidates for a file name written in the file context_filepath, in
\* their order: the name itself when absolute, the name in the
\* directory of the referring file, the name in the directory of the root.
Candidates(filename, context_filepath) ==
    IF filename.dir # ""
    THEN << Path(filename.dir, filename.name, filename.alias),
            Path(filename.dir, filename.name, FALSE),
            Path(filename.dir, filename.name, FALSE) >>
    ELSE << Path(context_filepath.dir, filename.name, FALSE),
            Path(RootFile.dir, filename.name, FALSE) >>

\* The first candidate that exists, as a set: empty when none does.
FirstExisting(cands) ==
    { cands[i] : i \in { k \in 1..Len(cands) : /\ Exists(cands[k])
                                               /\ \A j \in 1..(k - 1) : ~Exists(cands[j]) } }

\* No directive of the file names a section of a file that exists.
NoSectionDirective(ds, context_filepath) ==
    \A d \in ds : ~(d.is_lib /\ d.section # None /\ Resolvable(d, context_filepath))

\* C25: a turn of compile() on a file whose directives name whole files
\* visits, for each directive, the first existing candidate in the order
\* absolute name, directory of the referring file, directory of the root,
\* and visits nothing for a directive none of whose candidates exists.
C25_ResolveOrder ==
    [][ (comp.pc = "loop" /\ comp'.parsed # comp.parsed
           /\ ~fs[FileOf(Head(queue).filepath)].empty
           /\ NoSectionDirective(fs[FileOf(Head(queue).filepath)].includes,
                                 Head(queue).filepath)) =>
          visited_regions' = visited_regions \cup
              { RegionKey(CreateFileRegion(p)) :
                  p \in UNION { FirstExisting(Candidates(d.filepath, Head(queue).filepath)) :
                                d \in fs[FileOf(Head(queue).filepath)].includes } }
      ]_vars

\* compile() returned for a root that includes s/b by its absolute name,
\* s/b naming "d" (in both directories) and "a" (beside the root only): s/d
\* and r/a were visited, r/d was not.
C25_Witness ==
    /\ comp.pc = "done"
    /\ fs[RootFile].includes = { Directive(FALSE, Written("s", "b", FALSE), TRUE, None) }
    /\ fs[OtherFile].includes = { Directive(FALSE, Written("", "d", FALSE), TRUE, None),
                                  Directive(FALSE, Written("", "a", FALSE), TRUE, None) }
    /\ visited_regions = { RegionKey(CreateFileRegion(Path("r", "a", FALSE))),
                           RegionKey(CreateFileRegion(Path("s", "b", FALSE))),
                           RegionKey(CreateFileRegion(Path("s", "d", FALSE))) }

\* The Macro declarations among the logical lines of a region.
MacroDeclarations(region) ==
    SelectSeq(LogicalLines(netlist_file, region),
              LAMBDA line : /\ parse_declaration(line, 0).ok
                            /\ parse_declaration(line, 0).cell.type = "Macro")

\* C26: every MACRO region handed to the chunk parser holds one macro
\* declaration, and its parse result is the macro the region's context names.
C26_NestedMacroOwnRegion ==
    \A j \in 1..Len(parser.work_items) :
        parser.work_items[j].region_type = MACRO =>
            /\ Len(MacroDeclarations(parser.work_items[j])) = 1
            /\ Len(ChunkParse(netlist_file, parser.work_items[j]).cells) = 1
            /\ ChunkParse(netlist_file, parser.work_items[j]).cells[1].name =
                   parser.work_items[j].context_name

\* The name the call of resolve_model being made looks up.
LookedUp == Lower(resolved'.calls[Len(resolved'.calls)].name)

\* What the registered library contents give for a name: the model the
\* resolver makes of the first content that holds one, None without any.
FromLibraries(name) ==
    LET contents == library_registry.library_content
        made(i)  == SpiceModelResolver(name, contents[i][2], resolved.heap).model
        hits     == { i \in 1..Len(contents) : made(i).kind # "None" }
    IN IF hits = {} THEN NoDef
       ELSE made(CHOOSE i \in hits : \A k \in hits : i <= k)

C30_VisitedSetSameEveryRun ==
    comp.pc \in {"done", "raised"} =>
        \A run \in CompileOf(Root) : run.visited = visited_regions

(***************************************************************************)
(* Properties of the queue, of regions and of the linked netlist           *)
(***************************************************************************)

\* The keys of the regions in the queue.
QueuedKeys == { RegionKey(queue[i]) : i \in 1..Len(queue) }

\* C31: during compile() no region key is queued or parsed twice, the keys
\* of the queued regions are all in the visited set, and the visited set
\* only grows.
C31_EnqueuedOnceVisitedGrows ==
    /\ [](NoKeyTwice /\ QueuedKeys \subseteq visited_regions)
    /\ [][visited_regions \subseteq visited_regions']_vars

\* The root names s/b and itself: after its turn the queue holds s/b alone,
\* the directive that names the root having queued nothing.
C31_Witness ==
    /\ comp.pc = "loop"
    /\ fs[RootFile].includes = { Directive(FALSE, Written("s", "b", FALSE), TRUE, None),
                                 Directive(FALSE, Written("", "a", FALSE), TRUE, None) }
    /\ comp.parsed = << RegionKey(CreateFileRegion(Root)) >>
    /\ QueuedKeys = { RegionKey(CreateFileRegion(Path("s", "b", FALSE))) }
    /\ Len(queue) = 1
    /\ visited_regions = { RegionKey(CreateFileRegion(Root)),
                           RegionKey(CreateFileRegion(Path("s", "b", FALSE))) }

\* The cell ChunkParser.parse makes of a logical line read in the region
\* that starts at byte origin, as a sequence: empty when the line is a
\* directive or is nothing.
CellOfLine(line, origin) ==
    IF parse_declaration(line, origin).ok THEN <<parse_declaration(line, origin).cell>>
    ELSE IF parse_include(line).ok THEN <<>>
    ELSE IF parse_instance(line).ok THEN <<parse_instance(line).instance>>
    ELSE <<>>

RECURSIVE CellsOf(_, _)
\* The cells of the logical lines, in their order.
CellsOf(lines, origin) ==
    IF lines = <<>> THEN <<>>
    ELSE CellOfLine(Head(lines), origin) \o CellsOf(Tail(lines), origin)

\* The logical lines of a region that are not empty.
RegionLines(region) == SelectSeq(LogicalLines(netlist_file, region), LAMBDA l : l # <<>>)

\* C32: the parse of a MACRO region is one cell, the macro its first logical
\* line declares, whose children are the declarations and instances of the
\* later lines in source order.
C32_MacroRegionOneMacro ==
    \A j \in 1..Len(parser.work_items) :
        parser.work_items[j].region_type = MACRO =>
            LET region == parser.work_items[j]
                lines  == RegionLines(region)
                header == parse_declaration(Head(lines), region.start_byte)
                cells  == ChunkParse(netlist_file, region).cells
            IN /\ lines # <<>>
               /\ header.ok
               /\ Len(cells) = 1
               /\ cells[1].name = header.cell.name
               /\ cells[1].ports = header.cell.ports
               /\ cells[1].children = CellsOf(Tail(lines), region.start_byte)

\* The type and the name of each cell, in order.
NamesOf(cells) == [i \in 1..Len(cells) |-> <<cells[i].type, cells[i].name>>]

\* C33: the parse of a GLOBAL region has in its cell list every declaration
\* and every instance its logical lines hold, .subckt declarations included.
C33_GlobalRegionKeepsAll ==
    \A j \in 1..Len(parser.work_items) :
        parser.work_items[j].region_type = GLOBAL =>
            NamesOf(ChunkParse(netlist_file, parser.work_items[j]).cells) =
                NamesOf(CellsOf(RegionLines(parser.work_items[j]),
                                parser.work_items[j].start_byte))

\* C34: after link() returns, the top-level instances are the instances
\* parsed outside every macro, and each child instance of a linked macro has
\* that macro's name as its parent.
C34_TopInstancesOutsideMacros ==
    linker.pc = "returned" =>
        /\ NamesOf(linker.result.top_instances) =
               NamesOf(SelectSeq(parser.all_cells, LAMBDA c : c.type = "Instance"))
        /\ \A i \in 1..Len(linker.result.netlist.macros) :
              \A k \in 1..Len(linker.result.netlist.macros[i].children) :
                  linker.result.netlist.macros[i].children[k].type = "Instance" =>
                      linker.result.netlist.macros[i].children[k].parent =
                          linker.result.netlist.macros[i].name

(***************************************************************************)
(* Properties of the circuit graph                                         *)
(***************************************************************************)

\* The child instances of the macro the graph was made of.
GraphInstances == SelectSeq(circuit_graph.macro.children, LAMBDA c : c.type = "Instance")

\* The nets an instance is connected to.
NetsOfInstance(instance) == { instance.nets[k].net : k \in 1..Len(instance.nets) }

RECURSIVE ConnectionsUnder(_, _)
\* The connections the instances make under one net, in the order of the
\* instances: <instance>.<port> where the net is mapped to a port, the bare
\* instance name where it is not.
ConnectionsUnder(net_name, instances) ==
    IF instances = <<>> THEN <<>>
    ELSE LET instance == Head(instances)
             at       == { k \in 1..Len(instance.nets) : instance.nets[k].net = net_name }
             entry    == instance.nets[CHOOSE k \in at : TRUE]
         IN (IF at = {} THEN <<>>
             ELSE IF entry.port # None
             THEN << instance.name \o <<".">> \o entry.port >>
             ELSE << instance.name >>)
            \o ConnectionsUnder(net_name, Tail(instances))

\* C35: from_macro(m) makes a graph whose nets are the nets of the child
\* instances of m, each with one connection per instance connected to it
\* and no other, and whose instance_metadata has one entry per child
\* instance, the name of its definition or else its definition_name.
C35_GraphOfMacro ==
    circuit_graph.pc \in {"built", "raised"} =>
        /\ circuit_graph.pc = "built"
        /\ { circuit_graph.nets[i][1] : i \in 1..Len(circuit_graph.nets) } =
               UNION { NetsOfInstance(GraphInstances[k]) : k \in 1..Len(GraphInstances) }
        /\ \A i \in 1..Len(circuit_graph.nets) :
              circuit_graph.nets[i][2] = ConnectionsUnder(circuit_graph.nets[i][1], GraphInstances)
        /\ Len(circuit_graph.instance_metadata) = Len(GraphInstances)
        /\ \A k \in 1..Len(GraphInstances) :
              /\ DictHas(circuit_graph.instance_metadata, GraphInstances[k].name)
              /\ GraphInstances[k].definition.kind # "None" =>
                    DictGet(circuit_graph.instance_metadata, GraphInstances[k].name) =
                        GraphInstances[k].definition.name
              /\ (GraphInstances[k].definition.kind = "None"
                    /\ GraphInstances[k].definition_name # None) =>
                    DictGet(circuit_graph.instance_metadata, GraphInstances[k].name) =
                        GraphInstances[k].definition_name

(***************************************************************************)
(* Properties of the scanner state and of repeated scans                   *)
(***************************************************************************)

\* The step appends a MACRO region to context.regions.
EmitsMacro ==
    /\ Len(context'.regions) = Len(context.regions) + 1
    /\ context'.regions[Len(context'.regions)].region_type = MACRO

\* The step reads a line inside a macro, and what it does with the region
\* under construction: a MACRO region closes only on the macro-end line that
\* takes depth from 1 to 0, and carries the delimiter and the name the
\* context holds, which are those of the macro-start line that opened it.
MacroStepOk ==
    /\ EmitsMacro =>
          /\ scan.pc = "scanning"
          /\ matches_macro_end(LineRead)
          /\ context.depth = 1
          /\ context'.depth = 0
          /\ context'.regions[Len(context'.regions)].context_delimiter = context.context_delimiter
          /\ context'.regions[Len(context'.regions)].context_name = context.context_name
    /\ (~context.in_macro /\ context'.in_macro) =>
          /\ matches_macro_start(LineRead).matched
          /\ context'.context_delimiter = matches_macro_start(LineRead).delimiter
          /\ context'.context_name = matches_macro_start(LineRead).name
    /\ (context.in_macro /\ context'.in_macro) =>
          /\ context'.context_delimiter = context.context_delimiter
          /\ context'.context_name = context.context_name

\* C36: in every state of the scanner, in_macro is true exactly when
\* depth >= 1, depth is never negative, current_start never exceeds the
\* start offset of the line being processed, and a MACRO region is emitted
\* only on the macro-end line that takes depth from 1 to 0, with the
\* delimiter and the name recorded at the outermost macro-start.
C36_ScannerStateInvariant ==
    /\ [](context.in_macro <=> context.depth >= 1)
    /\ [](context.depth >= 0)
    /\ [](scan.pc = "scanning" => context.current_start <= scan.start_pos)
    /\ [][MacroStepOk]_vars

\* C37: scanning is repeatable: every call of scan() on the same Scanner over
\* the unchanged file returns the region sequence of the first call, which
\* is that of a scan from a new context.
C37_ScanRepeatable ==
    scan.pc = "returned" => scan.result = ScanRegions(mm, ScanContext, 0)

(***************************************************************************)
(* Properties of the resolution cache                                      *)
(***************************************************************************)

\* What resolve_model(model_name) finds in the static tables and the
\* library contents of the registry as they are, resolved_cache left aside.
UncachedLookup(reg, model_name, heap) ==
    resolve_model([reg EXCEPT !.resolved_cache = <<>>], model_name, heap).model

\* Two lookups gave the same definition: None both times, or a definition
\* of the same kind and name (a subcircuit out of a library is a new object
\* at every uncached lookup, so its identity is not compared).
SameDefinition(a, b) ==
    /\ a.kind = b.kind
    /\ a.kind # "None" => a.name = b.name

\* C38: whatever register_library_content and resolve_model calls were made
\* before, resolve_model(n) returns what an uncached lookup over the current
\* contents of the registry returns: a name that missed earlier resolves
\* once a definition for it is registered, and no cached hit is stale.
C38_CacheNeverStale ==
    [][ Len(resolved'.calls) = Len(resolved.calls) + 1 =>
          SameDefinition(resolved'.calls[Len(resolved'.calls)].model,
                         UncachedLookup(library_registry,
                                        resolved'.calls[Len(resolved'.calls)].name,
                                        resolved.heap))
      ]_vars

(***************************************************************************)
(* Properties of a blank first line                                        *)
(***************************************************************************)

\* part is a run of consecutive characters of whole.
IsPartOf(part, whole) ==
    \E i \in 0..(Len(whole) - Len(part)) : SubSeq(whole, i + 1, i + Len(part)) = part

\* The physical lines of the region.
RegionPhysicalLines(region) ==
    PhysicalLines(netlist_file, region.start_byte, region.end_byte)

\* C39: in a region with start_byte = 0, a blank first physical line does
\* not end the iteration: every later line of the region that is not a
\* comment reaches the dispatcher as a logical line or as part of one.
C39_BlankFirstLineGoesOn ==
    \A j \in 1..Len(parser.work_items) :
        (/\ parser.work_items[j].start_byte = 0
         /\ RegionPhysicalLines(parser.work_items[j]) # <<>>
         /\ Head(RegionPhysicalLines(parser.work_items[j])) = <<>>) =>
            \A k \in 2..Len(RegionPhysicalLines(parser.work_items[j])) :
                NotComment(RegionPhysicalLines(parser.work_items[j])[k]) =>
                    \E i \in 1..Len(LogicalLines(netlist_file, parser.work_items[j])) :
                        IsPartOf(Content(RegionPhysicalLines(parser.work_items[j])[k]),
                                 LogicalLines(netlist_file, parser.work_items[j])[i])

=============================================================================
